---- MODULE Spec2Model ----
(***************************************************************************)
(* A model of the dns-tunnel query pipeline: the local response cache      *)
(* (local/internal/cache), the remote response cache                       *)
(* (remote/internal/resolver/cache.go), the local RPC client               *)
(* (local/internal/client), the listener's request handler                 *)
(* (local/internal/server) with what the remote handler answers, and the   *)
(* payload envelope (local/internal/crypto).                               *)
(*                                                                         *)
(* Time is a discrete clock `now` counted in ticks; TicksPerSec ticks make *)
(* one second, so that the whole-second truncation of the TTL decrement is *)
(* visible.  Two clock reads made back to back inside one critical section *)
(* read the same tick.                                                     *)
(*                                                                         *)
(* A run of the cache model exercises one cache (tier) with one universe   *)
(* of inputs (profile): "wide" runs insert one payload under every key,    *)
(* "deep" runs insert and read every payload under one key.  A run of the  *)
(* listener is "solo", one handler goroutine asked under names that differ *)
(* in letter case, or "duo", two handler goroutines asked under one name.  *)
(***************************************************************************)
EXTENDS Integers, Sequences, FiniteSets, TLC

VARIABLES
    tier,       \* which cache this run exercises: "local" or "remote"
    profile,    \* the universe of inputs of this run: "wide", "deep", "solo" or "duo"
    now,        \* the clock, in ticks
    maxItems,   \* Cache.maxItems, as passed to the constructor
    items,      \* local Cache.items: key -> Entry
    g_pc,       \* position of the listener's cache read (handleRequest / Cache.Get)
    g_key,      \* key of the read in progress
    g_id,       \* transaction ID of the inbound message being handled
    g_entry,    \* the *Entry the read loaded under the read lock
    g_msg,      \* the message the read returns (a copy), then the one written
    g_at,       \* clock value the read compared with ExpiresAt
    g_del,      \* whether the read's delete of an expired entry removed an entry
    everSet,    \* history: keys ever stored by Set / SetNegative
    ritems,     \* remote Cache.items: key -> cacheEntry
    r_out,      \* history: outcome of the remote Cache.Get just made
    ev,         \* history: what the insert just made found and evicted
    h_resp,     \* history: the response handleRequest has just written
    o_pc,       \* position of a second, concurrent handleRequest goroutine
    o_key       \* cache key of the second goroutine's query

VARIABLES
    nCallers,       \* how many goroutines call Client.Resolve in this run
    nEndpoints,     \* len(c.endpoints)
    loadBalancing,  \* Client.loadBalancing
    maxRetries,     \* Client.maxRetries
    healthy,        \* Endpoint.Healthy of endpoints 0 .. nEndpoints-1
    currentIndex,   \* Client.currentIndex
    c_pc,           \* per caller: position in Client.Resolve
    c_attempt,      \* per caller: the loop variable attempt
    c_scan,         \* per caller: the loop variable of the selection in progress
    c_sel,          \* per caller: index of the selected endpoint
    c_lastErr,      \* per caller: lastErr
    c_ctx,          \* per caller: state of the caller's context
    c_cancelAt,     \* history, per caller: "wait" if the context was cancelled while
                    \* the call was blocked in its back-off wait, "run" if elsewhere,
                    \* "none" while it is live
    c_result,       \* per caller: what Resolve returns
    c_log,          \* history, per caller: the POST attempts of the call so far
    c_exch,         \* history, per caller: what came back for each of those attempts
    c_clean,        \* history, per caller: the pool was all healthy at the call's
                    \* start and nobody else has written a health flag since
    c_quiet,        \* history, per caller: no health flag has changed since the
                    \* selection in progress, or the one just made, began
    rrWindow        \* history: the latest round-robin selections made while every
                    \* endpoint has been healthy, at most nEndpoints of them

VARIABLES
    e_pc,       \* position of the envelope exchange: "idle", "sealed", "opened"
    e_key,      \* the key of the Cipher in use
    e_msg,      \* the plaintext handed to Encrypt
    e_wire,     \* the string Encrypt returned
    e_out,      \* what Decrypt returned
    n_hex,      \* the key string handed to NewCipher
    n_out,      \* what NewCipher returned
    s_pc,       \* the RPC servers: "idle", "sent" (one request before both), "served"
    s_req,      \* the (domain, type) the client resolves
    s_key,      \* the key of the client and of the server that has a cipher
    s_nonce,    \* the nonce the client's Encrypt drew
    s_world,    \* what the resolver answers to each (domain, type) it is passed
    s_enc,      \* what the server with the cipher did with the encrypted body
    s_plain,    \* what the server without cipher did with the plain body
    s_compat    \* what the server with the cipher did with the plain body

VARIABLES
    q_cfg,      \* the remote Resolver's configuration: upstreams, maxRetries, cache or none
    q_pc,       \* position of a Resolver.Resolve call: "idle", "querying", "returned"
    q_args,     \* the call's domain and record type
    q_attempt,  \* the loop variable attempt
    q_up,       \* index of the upstream the inner loop is at
    q_lastErr,  \* lastErr
    q_res,      \* what the call returns
    q_at,       \* history: the clock when the call checked the cache
    q_held,     \* history: the cache's entry for the call's key when the call checked
    q_asked,    \* history: the upstreams the call has queried, in order
    q_last,     \* history: the answer to the latest upstream query
    q_ctx       \* the context the call was passed: "live" or "done"

VARIABLES
    m_pc,       \* a record on its way to the listener's reply: "idle", "remote", "local"
    m_name,     \* the owner name of the query, as the listener received it
    m_up,       \* what the upstream lookup returned for the record
    m_rec,      \* the DNSRecord the remote resolver made of it
    m_rr,       \* what createRR made of the DNSRecord
    u_pc,       \* a health probe task: "idle", "requesting", "probed", "crashed"
    u_url,      \* the URL of the endpoint probed, as configured
    u_target,   \* the URL the probe's GET is built for
    u_healthy,  \* the endpoint's Healthy flag
    w_pc,       \* a handleRequest call: "idle", "resolving", "done"
    w_req,      \* the DNS message it was handed
    w_out       \* the messages it has written to the ResponseWriter, in order

recordVars == <<m_pc, m_name, m_up, m_rec, m_rr>>

resolverVars == <<q_cfg, q_pc, q_args, q_attempt, q_up, q_lastErr, q_res, q_at, q_held,
                  q_asked, q_last, q_ctx>>

keyVars == <<n_hex, n_out>>

serveVars == <<s_pc, s_req, s_key, s_nonce, s_world, s_enc, s_plain, s_compat>>

envelopeVars == <<e_pc, e_key, e_msg, e_wire, e_out, keyVars>>

cryptoVars == <<envelopeVars, serveVars>>

cacheVars == <<tier, profile, now, maxItems, items, g_pc, g_key, g_id, g_entry, g_msg,
               g_at, everSet, ritems, r_out, ev, g_del, h_resp, o_pc, o_key, resolverVars>>

otherVars == <<o_pc, o_key, resolverVars>>

queryVars == <<w_pc, w_req, w_out>>

probeVars == <<u_pc, u_url, u_target, u_healthy>>

clientCfg == <<nCallers, nEndpoints, loadBalancing, maxRetries>>

clientVars == <<clientCfg, queryVars, probeVars, healthy, currentIndex, c_pc, c_attempt, c_scan, c_sel,
                c_lastErr, c_ctx, c_cancelAt, c_result, c_log, c_clean, c_quiet, rrWindow, c_exch,
                recordVars>>

vars == <<cacheVars, clientVars, cryptoVars>>

----------------------------------------------------------------------------
(* Bounds of the model *)

TicksPerSec == 2
MaxTime == 5
MaxCap == 2

(* Durations passed to cache.New (seconds) and resolver.NewCache (ticks) *)
CacheConfigs == {[minTTL |-> 1, maxTTL |-> 2, defaultTTL |-> 3]}
RemoteTTLTicks == 3

(* maxItems: the constructors take any int and test none *)
CapChoices == 0..MaxCap

AllKeys == {"", "a.:A", "b.:A"}
(* the questions the listener is asked: owner names as they arrive, Qtype as the *)
(* wire number                                                                  *)
AllNames == {"a.", "A."}
Names == IF profile = "duo" THEN {"a."} ELSE AllNames
Qtypes == {1}
Questions == [Name : Names, Qtype : Qtypes]

(* dns.TypeToString: the mnemonic of a type number, "" for a number not in the map *)
TypeToString(t) ==
    CASE t = 1 -> "A"
      [] t = 15 -> "MX"
      [] t = 28 -> "AAAA"
      [] OTHER -> ""

(* cache.Key: q.Name + ":" + dns.TypeToString[q.Qtype] *)
Key(q) == q.Name \o ":" \o TypeToString(q.Qtype)

Keys ==
    CASE profile = "wide" -> AllKeys
      [] profile \in {"solo", "duo"} -> {Key(q) : q \in Questions}
      [] OTHER -> {"a.:A"}
MsgIds == {1, 2}
AnswerChoices == IF profile = "wide" THEN {<<3>>} ELSE {<< >>, <<0, 3>>, <<3>>}
ReadKeys == IF profile = "wide" /\ tier = "local" THEN {} ELSE Keys
(* ttl arguments of SetNegative, in ticks *)
NegativeTTLChoices == IF profile = "wide" THEN {} ELSE {1}
RemoteResults == IF profile = "wide" THEN {"r1"} ELSE {"r1", "r2"}

Max(a, b) == IF a >= b THEN a ELSE b

Seconds(s) == s * TicksPerSec

cfg == CHOOSE c \in CacheConfigs : TRUE
minTTL == Seconds(cfg.minTTL)
maxTTL == Seconds(cfg.maxTTL)
defaultTTL == Seconds(cfg.defaultTTL)

(* dns.Msg, as far as the cache and the listener read it *)
(* a dns.Msg: Answer holds the TTL of each answer record, Rdata what the record *)
(* says, in the same order                                                      *)
Reply(id, q, answer, rdata, rcode) ==
    [Id |-> id, Question |-> q, Answer |-> answer, Rdata |-> rdata, Rcode |-> rcode]

Msg(id, q, answer) == Reply(id, q, answer, [i \in 1..Len(answer) |-> "rr"], "NOERROR")
NilMsg == Msg(0, 0, << >>)
(* the messages callers pass to Set: replies (one question) and, for the guard, *)
(* a message without question and nil                                           *)
SetMsgs == {Msg(1, 1, a) : a \in AnswerChoices} \cup {Msg(1, 0, << >>), NilMsg}
NegativeMsgs == {Msg(1, 1, << >>)}

NoEntry == [Msg |-> NilMsg, ExpiresAt |-> 0 - 1, CreatedAt |-> 0 - 1]
NoEv == [ran |-> FALSE, len |-> 0, removed |-> {}, minimal |-> TRUE]
NoResp == [live |-> FALSE, via |-> "", msg |-> NilMsg, key |-> "", qid |-> 0,
           stored |-> FALSE, deleted |-> FALSE, entry |-> NoEntry, at |-> 0]
NoOut == [key |-> "", hit |-> FALSE, result |-> "", live |-> FALSE]

Remove(f, k) == [x \in (DOMAIN f) \ {k} |-> f[x]]
Put(f, k, v) == [x \in (DOMAIN f) \cup {k} |-> IF x = k THEN v ELSE f[x]]
Empty == [x \in {} |-> NoEntry]

(* Cache.Len *)
CacheLen(its) == Cardinality(DOMAIN its)

----------------------------------------------------------------------------
(* evictOldest: one pass over the map in the runtime's iteration order *)

Orders(S) == {o \in [1..Cardinality(S) -> S] : \A i, j \in 1..Cardinality(S) : o[i] = o[j] => i = j}

RECURSIVE ScanOldest(_, _, _, _, _)
ScanOldest(its, order, i, oldestKey, oldestTime) ==
    IF i > Len(order) THEN oldestKey
    ELSE LET key == order[i]
             exp == its[key].ExpiresAt
         IN  IF oldestKey = "" \/ exp < oldestTime
             THEN ScanOldest(its, order, i + 1, key, exp)
             ELSE ScanOldest(its, order, i + 1, oldestKey, oldestTime)

evictOldest(its, order) ==
    LET oldestKey == ScanOldest(its, order, 1, "", 0)
    IN  IF oldestKey # "" THEN Remove(its, oldestKey) ELSE its

(* Set / SetNegative: "if len(c.items) >= c.maxItems { c.evictOldest() }" *)
EvictIfFull(its, cap, order) ==
    IF CacheLen(its) >= cap THEN evictOldest(its, order) ELSE its

(* history of one insert: the length found, the keys removed, and whether each *)
(* removed key had the earliest ExpiresAt of the entries present               *)
Eviction(before, kept) ==
    [ran |-> TRUE,
     len |-> CacheLen(before),
     removed |-> (DOMAIN before) \ (DOMAIN kept),
     minimal |-> \A k \in (DOMAIN before) \ (DOMAIN kept) :
                    \A x \in DOMAIN before : before[k].ExpiresAt <= before[x].ExpiresAt]

----------------------------------------------------------------------------
(* Local cache *)

MinOf(s) == CHOOSE m \in {s[i] : i \in 1..Len(s)} : \A i \in 1..Len(s) : m <= s[i]

(* Set: TTL derived from the answers, then clamped *)
DeriveTTL(msg) ==
    LET t0 == IF Len(msg.Answer) > 0 THEN Seconds(MinOf(msg.Answer)) ELSE defaultTTL
        t1 == IF t0 < minTTL THEN minTTL ELSE t0
    IN  IF t1 > maxTTL THEN maxTTL ELSE t1

NewEntry(msg, ttl) == [Msg |-> msg, ExpiresAt |-> now + ttl, CreatedAt |-> now]

Insert(key, msg, ttl, order) ==
    LET kept == EvictIfFull(items, maxItems, order)
    IN  /\ items' = Put(kept, key, NewEntry(msg, ttl))
        /\ ev' = Eviction(items, kept)
        /\ everSet' = everSet \cup {key}

Set(key, msg) ==
    /\ tier = "local"
    /\ IF msg = NilMsg \/ msg.Question = 0
       THEN /\ ev' = NoEv
            /\ UNCHANGED <<items, everSet>>
       ELSE \E order \in Orders(DOMAIN items) : Insert(key, msg, DeriveTTL(msg), order)
    /\ h_resp' = NoResp
    /\ UNCHANGED <<cryptoVars, clientVars, otherVars, g_del, tier, profile, now, maxItems, g_pc, g_key, g_id, g_entry, g_msg, g_at,
                   ritems, r_out>>

SetNegative(key, msg, ttl) ==
    /\ tier = "local"
    /\ \E order \in Orders(DOMAIN items) : Insert(key, msg, ttl, order)
    /\ h_resp' = NoResp
    /\ UNCHANGED <<cryptoVars, clientVars, otherVars, g_del, tier, profile, now, maxItems, g_pc, g_key, g_id, g_entry, g_msg, g_at,
                   ritems, r_out>>

Clear ==
    /\ tier = "local"
    /\ items' = Empty
    /\ ev' = NoEv
    /\ h_resp' = NoResp
    /\ UNCHANGED <<cryptoVars, clientVars, otherVars, g_del, tier, profile, now, maxItems, g_pc, g_key, g_id, g_entry, g_msg, g_at,
                   everSet, ritems, r_out>>

(* cleanup: one sweep of the ticker loop, "if now.After(entry.ExpiresAt) { delete }" *)
Sweep(its) == [k \in {x \in DOMAIN its : ~(now > its[x].ExpiresAt)} |-> its[k]]

Cleanup ==
    /\ tier = "local"
    /\ items' = Sweep(items)
    /\ ev' = NoEv
    /\ h_resp' = NoResp
    /\ UNCHANGED <<cryptoVars, clientVars, otherVars, g_del, tier, profile, now, maxItems, g_pc, g_key, g_id, g_entry, g_msg, g_at,
                   everSet, ritems, r_out>>

(* Get, first critical section: entry, ok := c.items[key] under the read lock *)
Lookup(its, key) == IF key \in DOMAIN its THEN its[key] ELSE NoEntry

GetLookup(key, id) ==
    /\ tier = "local"
    /\ g_pc = "idle"
    /\ g_key' = key
    /\ g_id' = id
    /\ g_entry' = Lookup(items, key)
    /\ g_pc' = IF g_entry' # NoEntry THEN "found" ELSE "miss"
    /\ g_del' = FALSE
    /\ ev' = NoEv
    /\ h_resp' = NoResp
    /\ UNCHANGED <<cryptoVars, clientVars, otherVars, tier, profile, now, maxItems, items, g_msg, g_at, everSet, ritems, r_out>>

(* the adjustment without its floor of one second: ">=" for ">" *)
AdjustTtlToZero(ttl, elapsed) == IF ttl >= elapsed THEN ttl - elapsed ELSE 1

(* Get: "if rr.Header().Ttl > elapsed { Ttl -= elapsed } else { Ttl = 1 }" *)
AdjustTtl(ttl, elapsed) == IF ttl > elapsed THEN ttl - elapsed ELSE 1

(* Get: elapsed := uint32(time.Since(entry.CreatedAt).Seconds()) *)
Elapsed(created, t) == (t - created) \div TicksPerSec

AdjustMsg(msg, elapsed) ==
    [msg EXCEPT !.Answer = [i \in 1..Len(msg.Answer) |-> AdjustTtl(msg.Answer[i], elapsed)]]

(* the expiry test turned round: Before for After *)
ExpiredReversed(expiresAt, t) == t < expiresAt

(* Get: time.Now().After(entry.ExpiresAt), in both caches *)
Expired(expiresAt, t) == t > expiresAt

(* the read handing out the entry's own message instead of a copy: what is done *)
(* to the message is done to the entry                                          *)
AfterNoCopy(its, key, msg) ==
    IF key \in DOMAIN its THEN [its EXCEPT ![key].Msg = msg] ELSE its

(* Get: msg := entry.Msg.Copy(); what the caller does to the copy does not reach *)
(* the entry                                                                     *)
AfterCopy(its, key, msg) == its

(* Get, after the read lock is released: expiry test, copy and TTL adjustment *)
GetCheck ==
    /\ g_pc = "found"
    /\ g_at' = now
    /\ IF Expired(g_entry.ExpiresAt, now)
       THEN /\ g_pc' = "expired"
            /\ UNCHANGED <<g_msg, items>>
       ELSE /\ g_pc' = "hit"
            /\ g_msg' = AdjustMsg(g_entry.Msg, Elapsed(g_entry.CreatedAt, now))
            /\ items' = AfterCopy(items, g_key, g_msg')
    /\ ev' = NoEv
    /\ h_resp' = NoResp
    /\ UNCHANGED <<cryptoVars, clientVars, otherVars, g_del, tier, profile, now, maxItems, g_key, g_id, g_entry, everSet,
                   ritems, r_out>>

(* Get, second critical section: delete(c.items, key) under the write lock *)
GetDeleteExpired ==
    /\ g_pc = "expired"
    /\ items' = Remove(items, g_key)
    /\ g_del' = (g_key \in DOMAIN items)
    /\ g_pc' = "miss"
    /\ ev' = NoEv
    /\ h_resp' = NoResp
    /\ UNCHANGED <<cryptoVars, clientVars, otherVars, tier, profile, now, maxItems, g_key, g_id, g_entry, g_msg, g_at,
                   everSet, ritems, r_out>>

(* the handler is done with the read: its locals die *)
HandlerDone ==
    /\ g_pc' = "idle"
    /\ g_key' = ""
    /\ g_id' = 0
    /\ g_entry' = NoEntry
    /\ g_msg' = NilMsg
    /\ g_at' = 0
    /\ g_del' = FALSE

(* handleRequest, cache-hit path: cached.Id = r.Id; w.WriteMsg(cached); return *)
Rewritten(msg, id) == [msg EXCEPT !.Id = id]

(* history: what the handler wrote, and what its query did on the way *)
Written(via, msg, stored) ==
    [live |-> TRUE, via |-> via, msg |-> msg, key |-> g_key, qid |-> g_id,
     stored |-> stored, deleted |-> g_del, entry |-> g_entry, at |-> g_at]

ReplyFromCache ==
    /\ g_pc = "hit"
    /\ items' = AfterCopy(items, g_key, Rewritten(g_msg, g_id))
    /\ h_resp' = Written("cache", Rewritten(g_msg, g_id), FALSE)
    /\ HandlerDone
    /\ ev' = NoEv
    /\ UNCHANGED <<cryptoVars, clientVars, otherVars, tier, profile, now, maxItems, everSet, ritems, r_out>>

(* handleRequest, cache-miss path: the read is over *)
MissReturn ==
    /\ g_pc = "miss"
    /\ HandlerDone
    /\ ev' = NoEv
    /\ h_resp' = NoResp
    /\ UNCHANGED <<cryptoVars, clientVars, otherVars, tier, profile, now, maxItems, items, everSet, ritems, r_out>>

----------------------------------------------------------------------------
(* Remote cache *)

REmpty == [x \in {} |-> [result |-> "", ExpiresAt |-> 0]]

RHit(its, key, t) == key \in DOMAIN its /\ ~Expired(its[key].ExpiresAt, t)

RGet(key) ==
    /\ tier = "remote"
    /\ r_out' = IF RHit(ritems, key, now)
                THEN [key |-> key, hit |-> TRUE, result |-> ritems[key].result, live |-> TRUE]
                ELSE [key |-> key, hit |-> FALSE, result |-> "", live |-> TRUE]
    /\ ev' = NoEv
    /\ h_resp' = NoResp
    /\ UNCHANGED <<cryptoVars, clientVars, otherVars, g_del, tier, profile, now, maxItems, items, g_pc, g_key, g_id, g_entry, g_msg,
                   g_at, everSet, ritems>>

RSet(key, result) ==
    /\ tier = "remote"
    /\ \E order \in Orders(DOMAIN ritems) :
          LET kept == EvictIfFull(ritems, maxItems, order)
          IN  /\ ritems' = Put(kept, key, [result |-> result, ExpiresAt |-> now + RemoteTTLTicks])
              /\ ev' = Eviction(ritems, kept)
    /\ everSet' = everSet \cup {key}
    /\ r_out' = NoOut
    /\ h_resp' = NoResp
    /\ UNCHANGED <<cryptoVars, clientVars, otherVars, g_del, tier, profile, now, maxItems, items, g_pc, g_key, g_id, g_entry, g_msg,
                   g_at>>

RCleanup ==
    /\ tier = "remote"
    /\ ritems' = Sweep(ritems)
    /\ ev' = NoEv
    /\ r_out' = NoOut
    /\ h_resp' = NoResp
    /\ UNCHANGED <<cryptoVars, clientVars, otherVars, g_del, tier, profile, now, maxItems, items, g_pc, g_key, g_id, g_entry, g_msg,
                   g_at, everSet>>

----------------------------------------------------------------------------
Tick ==
    /\ now < MaxTime
    /\ now' = now + 1
    /\ ev' = NoEv
    /\ r_out' = NoOut
    /\ h_resp' = NoResp
    /\ UNCHANGED <<cryptoVars, clientVars, otherVars, g_del, tier, profile, maxItems, items, g_pc, g_key, g_id, g_entry, g_msg, g_at,
                   everSet, ritems>>

CacheInit ==
    /\ tier \in {"local", "remote"}
    /\ profile \in {"wide", "deep"}
    /\ now = 0
    /\ maxItems \in CapChoices
    /\ items = Empty
    /\ g_pc = "idle"
    /\ g_key = ""
    /\ g_id = 0
    /\ g_entry = NoEntry
    /\ g_msg = NilMsg
    /\ g_at = 0
    /\ everSet = {}
    /\ ritems = REmpty
    /\ r_out = NoOut
    /\ ev = NoEv
    /\ g_del = FALSE
    /\ h_resp = NoResp
    /\ o_pc = "idle"
    /\ o_key = ""

CacheNext ==
    \/ \E k \in Keys, m \in SetMsgs : Set(k, m)
    \/ \E k \in Keys, m \in NegativeMsgs, t \in NegativeTTLChoices : SetNegative(k, m, t)
    \/ Clear
    \/ Cleanup
    \/ \E k \in ReadKeys, id \in MsgIds : GetLookup(k, id)
    \/ GetCheck
    \/ GetDeleteExpired
    \/ ReplyFromCache
    \/ MissReturn
    \/ \E k \in ReadKeys : RGet(k)
    \/ \E k \in Keys, r \in RemoteResults : RSet(k, r)
    \/ RCleanup
    \/ Tick

----------------------------------------------------------------------------
(* Listener: handleRequest past the cache read (local/internal/server/server.go) *)

(* strings.TrimSuffix: s without the suffix if it ends with it, else s *)
TrimSuffix(s, suffix) ==
    IF Len(s) >= Len(suffix) /\ SubSeq(s, Len(s) - Len(suffix) + 1, Len(s)) = suffix
    THEN SubSeq(s, 1, Len(s) - Len(suffix))
    ELSE s

(* strings.ToUpper and strings.ToLower, on the letters the model's strings use *)
UpperChar(ch) ==
    CASE ch = "a" -> "A"
      [] ch = "b" -> "B"
      [] ch = "m" -> "M"
      [] ch = "x" -> "X"
      [] OTHER -> ch

LowerChar(ch) ==
    CASE ch = "A" -> "a"
      [] ch = "B" -> "b"
      [] ch = "M" -> "m"
      [] ch = "X" -> "x"
      [] OTHER -> ch

RECURSIVE ToUpper(_)
ToUpper(s) ==
    IF Len(s) = 0 THEN s ELSE UpperChar(SubSeq(s, 1, 1)) \o ToUpper(SubSeq(s, 2, Len(s)))

RECURSIVE ToLower(_)
ToLower(s) ==
    IF Len(s) = 0 THEN s ELSE LowerChar(SubSeq(s, 1, 1)) \o ToLower(SubSeq(s, 2, Len(s)))

(* resolveViaAPI: the domain and the record type the listener sends for a question *)
RpcDomain(q) == TrimSuffix(q.Name, ".")
RpcType(q) == TypeToString(q.Qtype)

(* Handler.Resolve: type A if none is given, else the type upper-cased *)
HandlerType(type) == IF type = "" THEN "A" ELSE ToUpper(type)

(* Resolver.Resolve: domain = strings.TrimSuffix(domain, "."), then *)
(* cacheKey := fmt.Sprintf("%s:%s", domain, recordType)              *)
RemoteKey(domain, recordType) == TrimSuffix(domain, ".") \o ":" \o recordType

(* the remote cache key the listener's RPC for a question arrives at *)
RemoteKeyOf(q) == RemoteKey(RpcDomain(q), HandlerType(RpcType(q)))

(* createRR: "if ttl == 0 { ttl = 300 }" *)
DefaultRRTtl == 300

(* what s.apiClient.Resolve hands back: an error, or the decoded response body *)
RpcFailure == [err |-> TRUE, Error |-> "", Records |-> << >>]
RpcBody(error, records) == [err |-> FALSE, Error |-> error, Records |-> records]

Rec(type, value, ttl) == [Type |-> type, Value |-> value, TTL |-> ttl]

(* net.ParseIP succeeds on these values *)
IPv4s == {"192.0.2.1", "192.0.2.2"}
IPv6s == {"2001:db8::1"}
ValidIPs == IPv4s \cup IPv6s

RpcChoices ==
    {RpcFailure,
     RpcBody("all upstreams failed", << >>),
     RpcBody("all upstreams failed", <<Rec("A", "192.0.2.1", 1)>>),
     RpcBody("", << >>),
     RpcBody("", <<Rec("A", "bad", 1)>>),
     RpcBody("", <<Rec("A", "bad", 1), Rec("A", "192.0.2.1", 0)>>),
     RpcBody("", <<Rec("A", "192.0.2.2", 1), Rec("A", "192.0.2.1", 0)>>)}

(* the replies the second goroutine's RPC brings *)
OtherRpcChoices == {RpcFailure, RpcBody("", <<Rec("A", "192.0.2.1", 1)>>)}

(* createRR: whether the record yields an RR, and the RR's TTL *)
createRROk(rec) ==
    CASE rec.Type = "A" -> rec.Value \in ValidIPs
      [] rec.Type = "AAAA" -> rec.Value \in ValidIPs
      [] rec.Type \in {"CNAME", "TXT", "MX", "NS"} -> TRUE
      [] OTHER -> FALSE

createRRTtl(rec) == IF rec.TTL = 0 THEN DefaultRRTtl ELSE rec.TTL

(* resolveViaAPI: the reply built from the decoded body *)

resolveViaAPI(id, body) ==
    IF body.Error # ""
    THEN Reply(id, 1, << >>, << >>, "NXDOMAIN")
    ELSE LET made == SelectSeq(body.Records, createRROk)
         IN  Reply(id, 1, [i \in 1..Len(made) |-> createRRTtl(made[i])],
                   [i \in 1..Len(made) |-> made[i].Value], "NOERROR")

(* the failure reply with the name-error code *)
writeErrorNameError(id) == Reply(id, 1, << >>, << >>, "NXDOMAIN")

(* writeError(w, r, dns.RcodeServerFailure) *)
writeError(id) == Reply(id, 1, << >>, << >>, "SERVFAIL")

(* the insertion guard dropped: every assembled reply is stored *)
CacheEveryReply(resp) == TRUE

(* handleRequest: "if s.cache != nil && len(resp.Answer) > 0" *)
ShouldCache(resp) == Len(resp.Answer) > 0

(* handleRequest, miss path: resp, err := s.resolveViaAPI(r, q) returns *)
ResolveReturn(rpc) ==
    /\ tier = "local"
    /\ profile \in {"solo", "duo"}
    /\ g_pc = "miss"
    /\ g_pc' = IF rpc.err THEN "failed" ELSE "resolved"
    /\ g_msg' = IF rpc.err THEN NilMsg ELSE resolveViaAPI(g_id, rpc)
    /\ ev' = NoEv
    /\ h_resp' = NoResp
    /\ UNCHANGED <<cryptoVars, clientVars, otherVars, tier, profile, now, maxItems, items, g_key, g_id,
                   g_entry, g_at, g_del, everSet, ritems, r_out>>

(* handleRequest, "if err != nil": writeError and return *)
ReplyServerFailure ==
    /\ g_pc = "failed"
    /\ h_resp' = Written("rpc", writeError(g_id), FALSE)
    /\ HandlerDone
    /\ ev' = NoEv
    /\ UNCHANGED <<cryptoVars, clientVars, otherVars, tier, profile, now, maxItems, items, everSet, ritems,
                   r_out>>

(* handleRequest: s.cache.Set(cacheKey, resp) if there is an answer, then *)
(* w.WriteMsg(resp)                                                       *)
StoreAndReply ==
    /\ g_pc = "resolved"
    /\ IF ShouldCache(g_msg) /\ g_msg.Question # 0
       THEN \E order \in Orders(DOMAIN items) : Insert(g_key, g_msg, DeriveTTL(g_msg), order)
       ELSE /\ ev' = NoEv
            /\ UNCHANGED <<items, everSet>>
    /\ h_resp' = Written("rpc", g_msg, ShouldCache(g_msg) /\ g_msg.Question # 0)
    /\ HandlerDone
    /\ UNCHANGED <<cryptoVars, clientVars, otherVars, tier, profile, now, maxItems, ritems, r_out>>

(* a second goroutine of handleRequest: its cache read, taken as one step, misses *)
OtherMiss(key) ==
    /\ tier = "local"
    /\ profile = "duo"
    /\ o_pc = "idle"
    /\ LET e == Lookup(items, key)
       IN  /\ e = NoEntry \/ Expired(e.ExpiresAt, now)
           /\ items' = IF e = NoEntry THEN items ELSE Remove(items, key)
    /\ o_pc' = "rpc"
    /\ o_key' = key
    /\ ev' = NoEv
    /\ h_resp' = NoResp
    /\ UNCHANGED <<cryptoVars, clientVars, resolverVars, tier, profile, now, maxItems, g_pc, g_key, g_id, g_entry, g_msg,
                   g_at, g_del, everSet, ritems, r_out>>

(* the second goroutine's RPC returns: it stores its reply as the first does *)
OtherStore(rpc) ==
    /\ o_pc = "rpc"
    /\ LET resp == resolveViaAPI(2, rpc)
       IN  IF ~rpc.err /\ ShouldCache(resp)
           THEN \E order \in Orders(DOMAIN items) : Insert(o_key, resp, DeriveTTL(resp), order)
           ELSE /\ ev' = NoEv
                /\ UNCHANGED <<items, everSet>>
    /\ o_pc' = "idle"
    /\ o_key' = ""
    /\ h_resp' = NoResp
    /\ UNCHANGED <<cryptoVars, clientVars, resolverVars, tier, profile, now, maxItems, g_pc, g_key, g_id, g_entry, g_msg,
                   g_at, g_del, ritems, r_out>>

(* a listener run is "solo", one goroutine asked under every name, or "duo", two *)
(* goroutines asked under one name                                              *)
ListenerCaps == IF profile = "duo" THEN {1} ELSE 1..MaxCap

ListenerIds == {1}

ListenerInit ==
    /\ tier = "local"
    /\ profile \in {"solo", "duo"}
    /\ now = 0
    /\ maxItems \in ListenerCaps
    /\ items = Empty
    /\ g_pc = "idle"
    /\ g_key = ""
    /\ g_id = 0
    /\ g_entry = NoEntry
    /\ g_msg = NilMsg
    /\ g_at = 0
    /\ everSet = {}
    /\ ritems = REmpty
    /\ r_out = NoOut
    /\ ev = NoEv
    /\ g_del = FALSE
    /\ h_resp = NoResp
    /\ o_pc = "idle"
    /\ o_key = ""

ListenerNext ==
    \/ \E q \in Questions, id \in ListenerIds : GetLookup(Key(q), id)
    \/ GetCheck
    \/ GetDeleteExpired
    \/ ReplyFromCache
    \/ \E rpc \in RpcChoices : ResolveReturn(rpc)
    \/ ReplyServerFailure
    \/ StoreAndReply
    \/ \E q \in Questions : OtherMiss(Key(q))
    \/ \E rpc \in OtherRpcChoices : OtherStore(rpc)
    \/ Cleanup
    \/ Tick

----------------------------------------------------------------------------
(* Envelope: Cipher.Encrypt and Cipher.Decrypt (local/internal/crypto/crypto.go) *)
(*                                                                               *)
(* Bytes are the numbers below ByteMod.  The AEAD is a keyed stream cipher with  *)
(* a keyed tag over nonce and ciphertext; the base64 text has one letter of      *)
(* Alphabet for each byte.                                                       *)

ByteMod == 3
MaxPlainLen == 2
NonceSize == 1
TagSize == 1

Bytes == 0..(ByteMod - 1)
ByteSeqs(n) == [1..n -> Bytes]
CipherKeys == {1, 2}
Plaintexts == UNION {ByteSeqs(n) : n \in 0..MaxPlainLen}
Nonces == ByteSeqs(NonceSize)

RECURSIVE SumOf(_)
SumOf(bs) == IF Len(bs) = 0 THEN 0 ELSE Head(bs) + SumOf(Tail(bs))

(* the AEAD of the model *)
Keystream(k, nonce, i) == (k + SumOf(nonce) + i) % ByteMod
Tag(k, nonce, ct) == [j \in 1..TagSize |-> (2 * k + SumOf(nonce) + SumOf(ct) + Len(ct) + j) % ByteMod]

(* gcm.Seal(dst, nonce, plaintext, nil): dst, then ciphertext, then tag *)
Seal(k, dst, nonce, plaintext) ==
    LET ct == [i \in 1..Len(plaintext) |-> (plaintext[i] + Keystream(k, nonce, i)) % ByteMod]
    IN  dst \o ct \o Tag(k, nonce, ct)

CryptoErr == [ok |-> FALSE, plaintext |-> << >>]
Plain(m) == [ok |-> TRUE, plaintext |-> m]

(* Open handing out the plaintext whatever the tag *)
OpenUnchecked(k, nonce, sealed) ==
    IF Len(sealed) < TagSize
    THEN CryptoErr
    ELSE LET ct == SubSeq(sealed, 1, Len(sealed) - TagSize)
         IN  Plain([i \in 1..Len(ct) |->
                       (ct[i] + ByteMod - Keystream(k, nonce, i)) % ByteMod])

(* gcm.Open(nil, nonce, ciphertext, nil): an error unless the tag matches *)
Open(k, nonce, sealed) ==
    IF Len(sealed) < TagSize
    THEN CryptoErr
    ELSE LET ct == SubSeq(sealed, 1, Len(sealed) - TagSize)
             tag == SubSeq(sealed, Len(sealed) - TagSize + 1, Len(sealed))
         IN  IF tag # Tag(k, nonce, ct)
             THEN CryptoErr
             ELSE Plain([i \in 1..Len(ct) |->
                           (ct[i] + ByteMod - Keystream(k, nonce, i)) % ByteMod])

(* base64.StdEncoding *)
Alphabet == <<"A", "B", "C", "D", "E", "F", "G", "H">>

RECURSIVE EncodeToString(_)
EncodeToString(bs) ==
    IF Len(bs) = 0 THEN "" ELSE Alphabet[Head(bs) + 1] \o EncodeToString(Tail(bs))

LetterValue(ch) ==
    IF \E b \in Bytes : Alphabet[b + 1] = ch
    THEN CHOOSE b \in Bytes : Alphabet[b + 1] = ch
    ELSE 0 - 1

RECURSIVE DecodeString(_)
DecodeString(str) ==
    IF Len(str) = 0
    THEN [ok |-> TRUE, bytes |-> << >>]
    ELSE LET b == LetterValue(SubSeq(str, 1, 1))
             rest == DecodeString(SubSeq(str, 2, Len(str)))
         IN  IF b < 0 \/ ~rest.ok
             THEN [ok |-> FALSE, bytes |-> << >>]
             ELSE [ok |-> TRUE, bytes |-> <<b>> \o rest.bytes]

(* Encrypt: ciphertext := c.gcm.Seal(nonce, nonce, plaintext, nil), then base64 *)
Encrypt(k, plaintext, nonce) == EncodeToString(Seal(k, nonce, nonce, plaintext))

(* Decrypt with the nonce left on the ciphertext handed to Open *)
SealedPartWhole(ciphertext) == ciphertext

(* Decrypt: nonce, ciphertext := ciphertext[:nonceSize], ciphertext[nonceSize:] *)
NoncePart(ciphertext) == SubSeq(ciphertext, 1, NonceSize)
SealedPart(ciphertext) == SubSeq(ciphertext, NonceSize + 1, Len(ciphertext))

Decrypt(k, encoded) ==
    LET decoded == DecodeString(encoded)
    IN  IF ~decoded.ok
        THEN CryptoErr
        ELSE IF Len(decoded.bytes) < NonceSize
             THEN CryptoErr
             ELSE Open(k, NoncePart(decoded.bytes), SealedPart(decoded.bytes))

(* the strings a cipher may be handed: letters of the base64 text and a character *)
(* outside it, up to one byte more than nonce and tag                            *)
WireChars == {Alphabet[b + 1] : b \in Bytes} \cup {"!"}

RECURSIVE StringsOver(_, _)
StringsOver(chars, n) ==
    IF n = 0
    THEN {""}
    ELSE LET shorter == StringsOver(chars, n - 1)
         IN  shorter \cup {str \o ch : str \in {x \in shorter : Len(x) = n - 1}, ch \in chars}

WireInputs == StringsOver(WireChars, NonceSize + TagSize + 1)

(* NewCipher: hex.DecodeString, "if len(key) != 32", then the AES-GCM cipher. *)
(* KeySize stands for the 32 bytes of the key.                                *)
KeySize == 1

HexDigit(ch) ==
    CASE ch = "0" -> 0
      [] ch = "1" -> 1
      [] ch = "a" -> 10
      [] ch = "F" -> 15
      [] ch = "f" -> 15
      [] OTHER -> 0 - 1

(* hex.DecodeString: an error for an odd length or a character that is no digit *)
RECURSIVE HexDecodePairs(_)
HexDecodePairs(str) ==
    IF Len(str) = 0
    THEN [ok |-> TRUE, bytes |-> << >>]
    ELSE LET hi == HexDigit(SubSeq(str, 1, 1))
             lo == HexDigit(SubSeq(str, 2, 2))
             rest == HexDecodePairs(SubSeq(str, 3, Len(str)))
         IN  IF hi < 0 \/ lo < 0 \/ ~rest.ok
             THEN [ok |-> FALSE, bytes |-> << >>]
             ELSE [ok |-> TRUE, bytes |-> <<16 * hi + lo>> \o rest.bytes]

HexDecodeString(str) ==
    IF Len(str) % 2 = 1 THEN [ok |-> FALSE, bytes |-> << >>] ELSE HexDecodePairs(str)

NoCipher == [ok |-> FALSE, key |-> << >>]

NewCipher(hexKey) ==
    LET key == HexDecodeString(hexKey)
    IN  IF ~key.ok
        THEN NoCipher
        ELSE IF Len(key.bytes) # KeySize
             THEN NoCipher
             ELSE [ok |-> TRUE, key |-> key.bytes]

KeyChars == {"0", "F", "z"}
KeyStrings == StringsOver(KeyChars, 2 * KeySize + 2)

(* one side seals a plaintext under a fresh nonce *)
EncryptCall(k, plaintext, nonce) ==
    /\ e_pc = "idle"
    /\ e_pc' = "sealed"
    /\ e_key' = k
    /\ e_msg' = plaintext
    /\ e_wire' = Encrypt(k, plaintext, nonce)
    /\ UNCHANGED <<cacheVars, clientVars, serveVars, keyVars, e_out>>

(* the other side, holding a cipher of the same key, opens what arrived *)
DecryptCall ==
    /\ e_pc = "sealed"
    /\ e_pc' = "opened"
    /\ e_out' = Decrypt(e_key, e_wire)
    /\ UNCHANGED <<cacheVars, clientVars, serveVars, keyVars, e_key, e_msg, e_wire>>

(* a cipher is handed a string that came from anywhere *)
DecryptInput(k, encoded) ==
    /\ e_pc = "idle"
    /\ e_pc' = "tried"
    /\ e_key' = k
    /\ e_wire' = encoded
    /\ e_out' = Decrypt(k, encoded)
    /\ UNCHANGED <<cacheVars, clientVars, serveVars, keyVars, e_msg>>

(* NewCipher is called with a key string *)
NewCipherCall(hexKey) ==
    /\ e_pc = "idle"
    /\ e_pc' = "built"
    /\ n_hex' = hexKey
    /\ n_out' = NewCipher(hexKey)
    /\ UNCHANGED <<cacheVars, clientVars, serveVars, e_key, e_msg, e_wire, e_out>>

EnvelopeDone ==
    /\ e_pc \in {"opened", "tried", "built"}
    /\ e_pc' = "idle"
    /\ e_key' = 0
    /\ e_msg' = << >>
    /\ e_wire' = ""
    /\ e_out' = CryptoErr
    /\ n_hex' = ""
    /\ n_out' = NoCipher
    /\ UNCHANGED <<cacheVars, clientVars, serveVars>>

CryptoInit ==
    /\ e_pc = "idle"
    /\ e_key = 0
    /\ e_msg = << >>
    /\ e_wire = ""
    /\ e_out = CryptoErr
    /\ n_hex = ""
    /\ n_out = NoCipher

CryptoNext ==
    \/ \E k \in CipherKeys, m \in Plaintexts, n \in Nonces : EncryptCall(k, m, n)
    \/ DecryptCall
    \/ \E k \in CipherKeys, w \in WireInputs : DecryptInput(k, w)
    \/ \E h \in KeyStrings : NewCipherCall(h)
    \/ EnvelopeDone

----------------------------------------------------------------------------
(* RPC client *)

MaxEndpoints == 3
MaxRetriesBound == 3
(* width of the model's currentIndex in bits; the program's is 32 (atomic.Uint32). *)
(* 2^2 and 2^32 leave the same remainder modulo every pool size up to 4.           *)
CounterBits == 2
CounterMod == 2 ^ CounterBits

(* the goroutines that may be inside Client.Resolve at once: miekg/dns serves *)
(* every query on a goroutine of its own                                      *)
CallerIds == {1, 2}
Callers == 1..nCallers

(* the configurations explored, <<callers, endpoints, max_retries>>: one caller with *)
(* a pool of any size and at most one attempt, one endpoint and any number of        *)
(* attempts, or two endpoints and up to three attempts; concurrent callers with a    *)
(* pool of at most two and at most one attempt each                                  *)
ClientConfigs ==
    {c \in (1..Cardinality(CallerIds)) \X (1..MaxEndpoints) \X (0..MaxRetriesBound) :
        IF c[1] = 1
        THEN c[2] = 1 \/ (c[2] = 2 /\ c[3] <= 3) \/ c[3] <= 1
        ELSE c[2] <= 2 /\ c[3] <= 1}
Policies == {"round_robin", "failover"}
Endpoints == 0..(nEndpoints - 1)

NoResult == [kind |-> "none", from |-> 0 - 1, err |-> "nil"]
OkResult(e) == [kind |-> "ok", from |-> e, err |-> "nil"]
(* fmt.Errorf("all attempts failed: %w", lastErr) *)
AllFailed(lastErr) == [kind |-> "all_attempts_failed", from |-> 0 - 1, err |-> lastErr]
(* ctx.Err() *)
CtxErr == [kind |-> "ctx", from |-> 0 - 1, err |-> "nil"]

(* doRequest: what one POST can come to. With the context done the request fails *)
(* with the context's error; otherwise 200 with a decodable body, a non-200      *)
(* status, or a transport error (refused, reset, timed out).                     *)
Outcomes(ctx) == IF ctx = "done" THEN {"ctx"} ELSE {"ok", "status", "transport"}

(* a request put on the wire whatever the state of its context *)
CtxIgnored(ctx) == TRUE

(* http.NewRequestWithContext(ctx, ...) and httpClient.Do(req): the round trip *)
(* starts only if the context is not done yet                                  *)
CtxAllowsSend(ctx) == ctx = "live"

(* the loop test off by one: "<=" for "<" *)
LoopContinuesOnceMore(attempt) == attempt <= maxRetries

(* "for attempt := 0; attempt < c.maxRetries; attempt++": the loop test *)
LoopContinues(attempt) == attempt < maxRetries

(* one iteration of selectRoundRobin: idx := int(c.currentIndex.Add(1)-1) % n *)
RoundRobinIdx(counter) == counter % nEndpoints

(* the last endpoint of the pool for the first *)
LastResortLast(n) == n - 1

(* "All unhealthy, try first one anyway": return c.endpoints[0] *)
LastResort(n) == 0

(* the failure marked on the head of the pool instead of the endpoint selected *)
MarkFirstFailed(h, e) == [h EXCEPT ![0] = FALSE]

(* endpoint.Healthy.Store(false) on the endpoint of the failed attempt *)
MarkFailed(h, e) == [h EXCEPT ![e] = FALSE]

(* the selectors' test with the flag ignored: every endpoint passes *)
LoadAlwaysTrue(h, e) == TRUE

(* ep.Healthy.Load() in the selectors *)
Load(h, e) == h[e]

(* what a successful attempt does to the health flags: nothing *)
AfterSuccess(h, e) == h

AllHealthy(h) == \A e \in Endpoints : h[e]

HealthySet(h) == {e \in Endpoints : h[e]}

(* the window of the latest round-robin selections made with the whole pool healthy *)
Slide(w, e) == IF Len(w) < nEndpoints THEN Append(w, e) ELSE Append(Tail(w), e)

(* every caller's c_clean after somebody other than `self` wrote a health flag *)
Dirtied(self) == [c \in Callers |-> IF c = self THEN c_clean[c] ELSE FALSE]

(* c_quiet of every caller once the health flags have become h: a selection in *)
(* progress that sees a flag change is not quiet any more                      *)
Observed(h) == [d \in Callers |-> c_quiet[d] /\ h = healthy]

(* a probe's end: the transport's error, or the status of the response *)
ProbeOutcome(err, status) == [err |-> err, status |-> status]
ProbeOutcomes == {ProbeOutcome(TRUE, 0), ProbeOutcome(FALSE, 200), ProbeOutcome(FALSE, 503)}

EnterLoop(c, attempt) ==
    /\ c_attempt' = [c_attempt EXCEPT ![c] = attempt]
    /\ IF LoopContinues(attempt)
       THEN /\ c_pc' = [c_pc EXCEPT ![c] = "select"]
            /\ c_scan' = [c_scan EXCEPT ![c] = 0]
            /\ UNCHANGED c_result
       ELSE /\ c_pc' = [c_pc EXCEPT ![c] = "done"]
            /\ c_result' = [c_result EXCEPT ![c] = AllFailed(c_lastErr'[c])]
            /\ UNCHANGED c_scan

(* Resolve is called: the body is built and the loop is entered *)
Begin(c) ==
    /\ c_pc[c] = "idle"
    /\ c_lastErr' = [c_lastErr EXCEPT ![c] = "nil"]
    /\ EnterLoop(c, 0)
    /\ c_ctx' = [c_ctx EXCEPT ![c] = "live"]
    /\ c_cancelAt' = [c_cancelAt EXCEPT ![c] = "none"]
    /\ c_log' = [c_log EXCEPT ![c] = << >>]
    /\ c_exch' = [c_exch EXCEPT ![c] = << >>]
    /\ c_clean' = [c_clean EXCEPT ![c] = AllHealthy(healthy)]
    /\ c_quiet' = [c_quiet EXCEPT ![c] = TRUE]
    /\ UNCHANGED <<cryptoVars, cacheVars, recordVars, clientCfg, queryVars, probeVars, healthy, currentIndex, c_sel, rrWindow>>

(* selectRoundRobin, one iteration of the scan; after the last one, endpoints[0] *)
SelectRoundRobin(c) ==
    /\ c_pc[c] = "select"
    /\ loadBalancing # "failover"
    /\ LET idx == RoundRobinIdx(currentIndex)
       IN  /\ currentIndex' = (currentIndex + 1) % CounterMod
           /\ IF Load(healthy, idx)
              THEN /\ c_sel' = [c_sel EXCEPT ![c] = idx]
                   /\ c_pc' = [c_pc EXCEPT ![c] = "request"]
                   /\ UNCHANGED c_scan
                   /\ rrWindow' = IF AllHealthy(healthy) /\ c_scan[c] = 0
                                  THEN Slide(rrWindow, idx)
                                  ELSE << >>
              ELSE /\ rrWindow' = << >>
                   /\ IF c_scan[c] + 1 < nEndpoints
                      THEN /\ c_scan' = [c_scan EXCEPT ![c] = c_scan[c] + 1]
                           /\ UNCHANGED <<c_sel, c_pc>>
                      ELSE /\ c_sel' = [c_sel EXCEPT ![c] = LastResort(nEndpoints)]
                           /\ c_pc' = [c_pc EXCEPT ![c] = "request"]
                           /\ UNCHANGED c_scan
    /\ UNCHANGED <<cryptoVars, cacheVars, recordVars, clientCfg, queryVars, probeVars, c_exch, healthy, c_attempt, c_lastErr, c_ctx, c_cancelAt,
                   c_result, c_log, c_clean, c_quiet>>

(* selectFailover, one iteration of the scan; after the last one, endpoints[0] *)
SelectFailover(c) ==
    /\ c_pc[c] = "select"
    /\ loadBalancing = "failover"
    /\ IF Load(healthy, c_scan[c])
       THEN /\ c_sel' = [c_sel EXCEPT ![c] = c_scan[c]]
            /\ c_pc' = [c_pc EXCEPT ![c] = "request"]
            /\ UNCHANGED c_scan
       ELSE IF c_scan[c] + 1 < nEndpoints
            THEN /\ c_scan' = [c_scan EXCEPT ![c] = c_scan[c] + 1]
                 /\ UNCHANGED <<c_sel, c_pc>>
            ELSE /\ c_sel' = [c_sel EXCEPT ![c] = LastResort(nEndpoints)]
                 /\ c_pc' = [c_pc EXCEPT ![c] = "request"]
                 /\ UNCHANGED c_scan
    /\ UNCHANGED <<cryptoVars, cacheVars, recordVars, clientCfg, queryVars, probeVars, c_exch, healthy, currentIndex, c_attempt, c_lastErr, c_ctx,
                   c_cancelAt, c_result, c_log, c_clean, c_quiet, rrWindow>>

(* What can come of one POST.  The remote handler (Handler.Resolve) answers 200 *)
(* whether its resolver returned records or an error, and another status when  *)
(* it rejects the request before resolving; or no response comes back at all.  *)
ResolverResults ==
    {[err |-> "all upstreams failed", records |-> << >>],
     [err |-> "", records |-> <<Rec("A", "192.0.2.1", 1)>>]}

NoBody == RpcBody("", << >>)

(* the handler answering a resolver failure with a server-error status *)
HandlerResolveStatus500(res) ==
    IF res.err # ""
    THEN [status |-> 500, body |-> RpcBody(res.err, << >>)]
    ELSE [status |-> 200, body |-> RpcBody("", res.records)]

(* Handler.Resolve, after h.resolver.Resolve: writeJSON(..., http.StatusOK) on *)
(* both branches, the error text in the body's error field                    *)
HandlerResolve(res) ==
    IF res.err # ""
    THEN [status |-> 200, body |-> RpcBody(res.err, << >>)]
    ELSE [status |-> 200, body |-> RpcBody("", res.records)]

Http(resolver, answer) ==
    [kind |-> "http", resolver |-> resolver, status |-> answer.status, body |-> answer.body]

Resolved(res) == Http(IF res.err # "" THEN "failed" ELSE "answered", HandlerResolve(res))

Rejected == Http("none", [status |-> 400, body |-> NoBody])
Lost == [kind |-> "lost", resolver |-> "none", status |-> 0, body |-> NoBody]
Aborted == [kind |-> "aborted", resolver |-> "none", status |-> 0, body |-> NoBody]
Unsent == [kind |-> "unsent", resolver |-> "none", status |-> 0, body |-> NoBody]

Exchanges == {Resolved(res) : res \in ResolverResults} \cup {Rejected, Lost, Aborted}

(* doRequest: an error from httpClient.Do, an error for a status other than 200, *)
(* else the decoded body                                                         *)
doRequest(ex) ==
    CASE ex.kind = "aborted" -> "ctx"
      [] ex.kind = "lost" -> "transport"
      [] ex.status # 200 -> "status"
      [] OTHER -> "ok"

(* "if err == nil" not taken: lastErr = err, endpoint.Healthy.Store(false), then *)
(* the back-off wait or, after the last attempt, the end of the loop             *)
Fail(c, outcome) ==
    /\ c_log' = [c_log EXCEPT ![c] = Append(@, [ep |-> c_sel[c], out |-> outcome])]
    /\ c_lastErr' = [c_lastErr EXCEPT ![c] = outcome]
    /\ healthy' = MarkFailed(healthy, c_sel[c])
    /\ c_clean' = Dirtied(c)
    /\ rrWindow' = << >>
    /\ c_quiet' = [Observed(healthy') EXCEPT ![c] = TRUE]
    /\ IF c_attempt[c] < maxRetries - 1
       THEN /\ c_pc' = [c_pc EXCEPT ![c] = "wait"]
            /\ UNCHANGED <<c_attempt, c_scan, c_result>>
       ELSE EnterLoop(c, c_attempt[c] + 1)

(* doRequest is called on the selected endpoint: the POST goes out, or the call *)
(* fails at once because the context is already done                            *)
RequestStart(c) ==
    /\ c_pc[c] = "request"
    /\ IF CtxAllowsSend(c_ctx[c])
       THEN /\ c_pc' = [c_pc EXCEPT ![c] = "inflight"]
            /\ c_quiet' = [c_quiet EXCEPT ![c] = TRUE]
            /\ UNCHANGED <<healthy, c_attempt, c_scan, c_lastErr, c_result, c_log, c_exch,
                           c_clean, rrWindow>>
       ELSE /\ Fail(c, "ctx")
            /\ c_exch' = [c_exch EXCEPT ![c] = Append(@, Unsent)]
    /\ UNCHANGED <<cryptoVars, cacheVars, recordVars, clientCfg, queryVars, probeVars, currentIndex, c_sel, c_ctx, c_cancelAt>>

(* the POST in flight ends with the exchange ex and Resolve handles what *)
(* doRequest returns for it                                             *)
RequestEnds(c, ex, outcome) ==
    /\ c_pc[c] = "inflight"
    /\ outcome \in Outcomes(c_ctx[c])
    /\ c_exch' = [c_exch EXCEPT ![c] = Append(@, ex)]
    /\ IF outcome = "ok"
       THEN /\ c_log' = [c_log EXCEPT ![c] = Append(@, [ep |-> c_sel[c], out |-> outcome])]
            /\ c_result' = [c_result EXCEPT ![c] = OkResult(c_sel[c])]
            /\ c_pc' = [c_pc EXCEPT ![c] = "done"]
            /\ healthy' = AfterSuccess(healthy, c_sel[c])
            /\ c_clean' = IF healthy' = healthy THEN c_clean ELSE Dirtied(c)
            /\ c_quiet' = Observed(healthy')
            /\ UNCHANGED <<c_lastErr, c_attempt, c_scan, rrWindow>>
       ELSE Fail(c, outcome)
    /\ UNCHANGED <<cryptoVars, cacheVars, recordVars, clientCfg, queryVars, probeVars, currentIndex, c_sel, c_ctx, c_cancelAt>>

Request(c, ex) == RequestEnds(c, ex, doRequest(ex))

(* the back-off select, case <-ctx.Done(): return nil, ctx.Err() *)
WaitCancelled(c) ==
    /\ c_pc[c] = "wait"
    /\ c_ctx[c] = "done"
    /\ c_pc' = [c_pc EXCEPT ![c] = "done"]
    /\ c_result' = [c_result EXCEPT ![c] = CtxErr]
    /\ UNCHANGED <<cryptoVars, cacheVars, recordVars, clientCfg, queryVars, probeVars, c_exch, healthy, currentIndex, c_attempt, c_scan, c_sel,
                   c_lastErr, c_ctx, c_cancelAt, c_log, c_clean, c_quiet, rrWindow>>

(* the back-off select, case <-time.After(...): the next iteration. A select that *)
(* finds both channels ready picks either case (a context done before the wait   *)
(* and a delay of zero or less); a select blocked on both is woken by the channel *)
(* that becomes ready first, so a cancellation that arrives during the wait wins. *)
WaitTimer(c) ==
    /\ c_pc[c] = "wait"
    /\ c_cancelAt[c] # "wait"
    /\ EnterLoop(c, c_attempt[c] + 1)
    /\ c_quiet' = [c_quiet EXCEPT ![c] = TRUE]
    /\ UNCHANGED <<cryptoVars, cacheVars, recordVars, clientCfg, queryVars, probeVars, c_exch, healthy, currentIndex, c_sel, c_lastErr, c_ctx,
                   c_cancelAt, c_log, c_clean, rrWindow>>

(* the caller cancels the context, or its deadline passes *)
Cancel(c) ==
    /\ c_pc[c] \in {"select", "request", "inflight", "wait"}
    /\ c_ctx[c] = "live"
    /\ c_ctx' = [c_ctx EXCEPT ![c] = "done"]
    /\ c_cancelAt' = [c_cancelAt EXCEPT ![c] = IF c_pc[c] = "wait" THEN "wait" ELSE "run"]
    /\ UNCHANGED <<cryptoVars, cacheVars, recordVars, clientCfg, queryVars, probeVars, c_exch, healthy, currentIndex, c_pc, c_attempt, c_scan,
                   c_sel, c_lastErr, c_result, c_log, c_clean, c_quiet, rrWindow>>

(* Resolve has returned: its locals die *)
Return(c) ==
    /\ c_pc[c] = "done"
    /\ c_pc' = [c_pc EXCEPT ![c] = "idle"]
    /\ c_attempt' = [c_attempt EXCEPT ![c] = 0]
    /\ c_scan' = [c_scan EXCEPT ![c] = 0]
    /\ c_sel' = [c_sel EXCEPT ![c] = 0]
    /\ c_lastErr' = [c_lastErr EXCEPT ![c] = "nil"]
    /\ c_ctx' = [c_ctx EXCEPT ![c] = "live"]
    /\ c_cancelAt' = [c_cancelAt EXCEPT ![c] = "none"]
    /\ c_result' = [c_result EXCEPT ![c] = NoResult]
    /\ c_log' = [c_log EXCEPT ![c] = << >>]
    /\ c_exch' = [c_exch EXCEPT ![c] = << >>]
    /\ c_clean' = [c_clean EXCEPT ![c] = FALSE]
    /\ c_quiet' = [c_quiet EXCEPT ![c] = TRUE]
    /\ UNCHANGED <<cryptoVars, cacheVars, recordVars, clientCfg, queryVars, probeVars, healthy, currentIndex, rrWindow>>

(* checkEndpoint: ep.Healthy.Store(resp.StatusCode == 200), false on any error *)
(* a probe that takes every response for health *)
ProbeHealthyAnyStatus(outcome) == ~outcome.err

(* checkEndpoint: Store(false) on an error, else Store(resp.StatusCode == http.StatusOK) *)
ProbeHealthy(outcome) == ~outcome.err /\ outcome.status = 200

Probe(e, ok) ==
    /\ healthy' = [healthy EXCEPT ![e] = ok]
    /\ c_clean' = [c \in Callers |-> FALSE]
    /\ rrWindow' = IF ok /\ AllHealthy(healthy) THEN rrWindow ELSE << >>
    /\ c_quiet' = Observed(healthy')
    /\ UNCHANGED <<cryptoVars, cacheVars, recordVars, clientCfg, queryVars, probeVars, c_exch, currentIndex, c_pc, c_attempt, c_scan, c_sel,
                   c_lastErr, c_ctx, c_cancelAt, c_result, c_log>>

(* checkEndpoint(ep), from the request to the Store *)
checkEndpoint(e, outcome) == Probe(e, ProbeHealthy(outcome))

ClientInit ==
    /\ \E c \in ClientConfigs : nCallers = c[1] /\ nEndpoints = c[2] /\ maxRetries = c[3]
    /\ loadBalancing \in Policies
    /\ healthy = [e \in Endpoints |-> TRUE]
    /\ currentIndex = 0
    /\ c_pc = [c \in Callers |-> "idle"]
    /\ c_attempt = [c \in Callers |-> 0]
    /\ c_scan = [c \in Callers |-> 0]
    /\ c_sel = [c \in Callers |-> 0]
    /\ c_lastErr = [c \in Callers |-> "nil"]
    /\ c_ctx = [c \in Callers |-> "live"]
    /\ c_cancelAt = [c \in Callers |-> "none"]
    /\ c_result = [c \in Callers |-> NoResult]
    /\ c_log = [c \in Callers |-> << >>]
    /\ c_exch = [c \in Callers |-> << >>]
    /\ c_clean = [c \in Callers |-> FALSE]
    /\ c_quiet = [c \in Callers |-> TRUE]
    /\ rrWindow = << >>

ClientNext ==
    \/ \E c \in Callers : Begin(c)
    \/ \E c \in Callers : SelectRoundRobin(c)
    \/ \E c \in Callers : SelectFailover(c)
    \/ \E c \in Callers : RequestStart(c)
    \/ \E c \in Callers, ex \in Exchanges : Request(c, ex)
    \/ \E c \in Callers : WaitCancelled(c)
    \/ \E c \in Callers : WaitTimer(c)
    \/ \E c \in Callers : Cancel(c)
    \/ \E c \in Callers : Return(c)
    \/ \E e \in Endpoints, outcome \in ProbeOutcomes : checkEndpoint(e, outcome)

----------------------------------------------------------------------------
(* The health probe's URL.  checkEndpoint cuts len("/api/v1/resolve") bytes *)
(* off the end of the endpoint's URL, whatever they are, and appends        *)
(* "/health"; the slice panics when the URL is shorter than that, and a     *)
(* panic in the probe's goroutine, which nothing recovers, ends the process *)

ResolveSuffix == "/api/v1/resolve"

(* endpoint URLs a configuration can hold: Validate asks only for a non-empty URL *)
URLBases == {"h", "http://a", "http://192.0.2.7:8080", "https://primary.example.com",
             "https://backup.example.com:8443", "https://cdn.example.net/dns"}
URLPaths == {"", "/", "/api/v1/resolve", "/api/v1/data", "/api/v1/resolve/", "/v1/resolve",
             "/dns/api/v1/resolve"}
EndpointURLs == {b \o p : b \in URLBases, p \in URLPaths}

NoURL == [ok |-> FALSE, url |-> ""]

(* healthURL := ep.URL[:len(ep.URL)-len("/api/v1/resolve")] + "/health" *)
healthURL(url) ==
    IF Len(url) < Len(ResolveSuffix)
    THEN NoURL
    ELSE [ok |-> TRUE, url |-> SubSeq(url, 1, Len(url) - Len(ResolveSuffix)) \o "/health"]

(* checkEndpoint(ep) up to its GET: the health URL is derived and the request built *)
ProbeTask(url) ==
    /\ u_pc = "idle"
    /\ u_url' = url
    /\ u_target' = healthURL(url).url
    /\ u_pc' = IF healthURL(url).ok THEN "requesting" ELSE "crashed"
    /\ UNCHANGED <<cacheVars, cryptoVars, recordVars, clientCfg, queryVars, healthy, currentIndex, c_pc,
                   c_attempt, c_scan, c_sel, c_lastErr, c_ctx, c_cancelAt, c_result, c_log,
                   c_clean, c_quiet, rrWindow, c_exch, u_healthy>>

(* checkEndpoint(ep) from the GET's end: Store(false) on an error, else *)
(* Store(resp.StatusCode == http.StatusOK)                              *)
ProbeResponse(outcome) ==
    /\ u_pc = "requesting"
    /\ u_healthy' = ProbeHealthy(outcome)
    /\ u_pc' = "probed"
    /\ UNCHANGED <<cacheVars, cryptoVars, recordVars, clientCfg, queryVars, healthy, currentIndex, c_pc,
                   c_attempt, c_scan, c_sel, c_lastErr, c_ctx, c_cancelAt, c_result, c_log,
                   c_clean, c_quiet, rrWindow, c_exch, u_url, u_target>>

(* the probe's goroutine ends; the endpoint keeps its flag *)
ProbeTaskDone ==
    /\ u_pc = "probed"
    /\ u_pc' = "idle"
    /\ u_url' = ""
    /\ u_target' = ""
    /\ UNCHANGED <<cacheVars, cryptoVars, recordVars, clientCfg, queryVars, healthy, currentIndex, c_pc,
                   c_attempt, c_scan, c_sel, c_lastErr, c_ctx, c_cancelAt, c_result, c_log,
                   c_clean, c_quiet, rrWindow, c_exch, u_healthy>>

(* NewClient: endpoints[i].Healthy.Store(true); no probe has been started *)
ProbeTaskInit ==
    /\ u_pc = "idle"
    /\ u_url = ""
    /\ u_target = ""
    /\ u_healthy = TRUE

ProbeTaskNext ==
    \/ \E url \in EndpointURLs : ProbeTask(url)
    \/ \E outcome \in ProbeOutcomes : ProbeResponse(outcome)
    \/ ProbeTaskDone

----------------------------------------------------------------------------
(* handleRequest from the message handed to it to the messages it writes.  A *)
(* message's Question is the list of its questions here, each with its class *)

InboundNames == {"a.", "b."}
InboundTypes == {1, 28}
InboundClasses == {1, 3}
InboundQuestions == [Name : InboundNames, Qtype : InboundTypes, Qclass : InboundClasses]
(* the questions after the first come from a smaller set *)
MaxQuestions == 2
FurtherQuestions == [Name : InboundNames, Qtype : {1}, Qclass : {1}]
QuestionLists ==
    UNION {{l \in [1..n -> InboundQuestions] : \A i \in 2..n : l[i] \in FurtherQuestions} :
              n \in 0..MaxQuestions}
Inbound == [Id : MsgIds, Question : QuestionLists]
NoInbound == [Id |-> 0, Question |-> << >>]

(* dns.Msg.SetReply with the whole question section copied *)
SetReplyAllQuestions(r) == r.Question

(* dns.Msg.SetReply: the reply's question section is the request's first question *)
SetReply(r) == IF Len(r.Question) > 0 THEN <<r.Question[1]>> ELSE << >>

(* resolveViaAPI(r): resp.SetReply(r), then the code and the answers from the body *)
ApiReply(r, body) == [resolveViaAPI(r.Id, body) EXCEPT !.Question = SetReply(r)]

(* writeError(w, r, dns.RcodeServerFailure): resp.SetRcode(r, rcode) *)
ErrorReply(r) == [writeError(r.Id) EXCEPT !.Question = SetReply(r)]

(* what the cache can hold under a key: replies with answers that handleRequest *)
(* stored for an earlier message whose first question has that key              *)
CachedReplies ==
    {ApiReply([Id |-> id, Question |-> <<q>>], body) :
        id \in MsgIds, q \in InboundQuestions,
        body \in {b \in RpcChoices : ~b.err /\ b.Error = "" /\ Len(SelectSeq(b.Records, createRROk)) > 0}}

(* handleRequest up to the call of resolveViaAPI: the return on an empty question *)
(* section, and the cache read with the reply on a hit; cached is what Get        *)
(* returns, NilMsg for a miss or a listener without cache                         *)
handleRequest(r, cached) ==
    /\ w_pc = "idle"
    /\ w_req' = r
    /\ IF Len(r.Question) = 0
       THEN /\ cached = NilMsg
            /\ w_out' = << >>
            /\ w_pc' = "done"
       ELSE IF cached # NilMsg
            THEN /\ Key(cached.Question[1]) = Key(r.Question[1])
                 /\ w_out' = <<Rewritten(cached, r.Id)>>
                 /\ w_pc' = "done"
            ELSE /\ w_out' = << >>
                 /\ w_pc' = "resolving"
    /\ UNCHANGED <<cacheVars, cryptoVars, recordVars, probeVars, clientCfg, healthy, currentIndex,
                   c_pc, c_attempt, c_scan, c_sel, c_lastErr, c_ctx, c_cancelAt, c_result, c_log,
                   c_clean, c_quiet, rrWindow, c_exch>>

(* handleRequest from the return of resolveViaAPI: writeError on an error, else *)
(* w.WriteMsg(resp)                                                             *)
handleResolved(rpc) ==
    /\ w_pc = "resolving"
    /\ w_out' = Append(w_out, IF rpc.err THEN ErrorReply(w_req) ELSE ApiReply(w_req, rpc))
    /\ w_pc' = "done"
    /\ UNCHANGED <<cacheVars, cryptoVars, recordVars, probeVars, clientCfg, healthy, currentIndex,
                   c_pc, c_attempt, c_scan, c_sel, c_lastErr, c_ctx, c_cancelAt, c_result, c_log,
                   c_clean, c_quiet, rrWindow, c_exch, w_req>>

(* handleRequest has returned *)
handleReturned ==
    /\ w_pc = "done"
    /\ w_pc' = "idle"
    /\ w_req' = NoInbound
    /\ w_out' = << >>
    /\ UNCHANGED <<cacheVars, cryptoVars, recordVars, probeVars, clientCfg, healthy, currentIndex,
                   c_pc, c_attempt, c_scan, c_sel, c_lastErr, c_ctx, c_cancelAt, c_result, c_log,
                   c_clean, c_quiet, rrWindow, c_exch>>

QueryInit ==
    /\ w_pc = "idle"
    /\ w_req = NoInbound
    /\ w_out = << >>

QueryNext ==
    \/ \E r \in Inbound, cached \in {NilMsg} \cup CachedReplies : handleRequest(r, cached)
    \/ \E rpc \in RpcChoices : handleResolved(rpc)
    \/ handleReturned

----------------------------------------------------------------------------
(* Specifications: the caches with the client at rest, the client with the *)
(* caches at rest                                                          *)

(***************************************************************************)
(* The RPC server's handler before a client's request body.  Client.Resolve *)
(* marshals {domain, type} and, with a cipher, wraps the encrypted bytes as *)
(* {data}; Handler.Resolve decodes the body along the branch its own cipher *)
(* setting selects, validates the domain, fixes the record type and calls   *)
(* the resolver.  The JSON text of a request is two bytes here, one naming  *)
(* the domain and one the type.                                             *)
(***************************************************************************)
DomainTexts == <<"", "a", "a.">>
TypeTexts == <<"", "A", "mx">>

Requests == {[domain |-> DomainTexts[i], type |-> TypeTexts[j]] : i \in 1..3, j \in 1..3}
NoRequest == [domain |-> "", type |-> ""]

CodeOf(texts, str) == (CHOOSE i \in 1..Len(texts) : texts[i] = str) - 1

(* json.Marshal(reqBody) *)
Marshal(req) == <<CodeOf(DomainTexts, req.domain), CodeOf(TypeTexts, req.type)>>

BadJson == [ok |-> FALSE, req |-> NoRequest]

(* json.Unmarshal losing the type field *)
UnmarshalDomainOnly(bytes) ==
    IF Len(bytes) = 2 /\ bytes[1] < Len(DomainTexts) /\ bytes[2] < Len(TypeTexts)
    THEN [ok |-> TRUE, req |-> [domain |-> DomainTexts[bytes[1] + 1], type |-> ""]]
    ELSE BadJson

(* json.Unmarshal(decrypted, &req) *)
Unmarshal(bytes) ==
    IF Len(bytes) = 2 /\ bytes[1] < Len(DomainTexts) /\ bytes[2] < Len(TypeTexts)
    THEN [ok |-> TRUE,
          req |-> [domain |-> DomainTexts[bytes[1] + 1], type |-> TypeTexts[bytes[2] + 1]]]
    ELSE BadJson

(* json.NewDecoder(r.Body).Decode(&req): the fields the object has, "" for the rest *)
Field(body, name) == IF name \in DOMAIN body THEN body[name] ELSE ""

DecodeRequest(body) == [domain |-> Field(body, "domain"), type |-> Field(body, "type")]

(* Client.Resolve: the body it posts, cipher = 0 for a client without one *)
ClientBody(cipher, req, nonce) ==
    IF cipher # 0
    THEN [data |-> Encrypt(cipher, Marshal(req), nonce)]
    ELSE [domain |-> req.domain, type |-> req.type]

(* what the resolver is passed and what it returns *)
ResolverArgs == {[domain |-> d, type |-> t] : d \in {"a", "a."}, t \in {"A", "MX"}}
NoArgs == [domain |-> "", type |-> ""]
Worlds == [ResolverArgs -> {"failed", "answered"}]
NoWorld == [a \in ResolverArgs |-> "failed"]

ResolverResult(world, args) ==
    IF world[args] = "failed"
    THEN [err |-> "all upstreams failed", domain |-> "", records |-> << >>, cached |-> FALSE]
    ELSE [err |-> "", domain |-> TrimSuffix(args.domain, "."),
          records |-> <<Rec(args.type, "192.0.2.1", 1)>>, cached |-> FALSE]

(* what a server did with one request: what it passed to the resolver and what *)
(* it wrote                                                                    *)
Served(passed, http, domain, cached) ==
    [passed |-> passed, http |-> http, domain |-> domain, cached |-> cached]

NotServed == Served(NoArgs, [status |-> 0, body |-> NoBody], "", FALSE)

(* h.writeError(w, message, http.StatusBadRequest) *)
BadRequest(message) ==
    Served(NoArgs, [status |-> 400, body |-> RpcBody(message, << >>)], "", FALSE)

(* Handler.Resolve from "Validate request" on *)
HandlerValidated(req, world) ==
    IF req.domain = ""
    THEN BadRequest("domain is required")
    ELSE LET args == [domain |-> req.domain, type |-> HandlerType(req.type)]
             res == ResolverResult(world, args)
         IN  Served(args, HandlerResolve(res),
                    IF res.err # "" THEN req.domain ELSE res.domain, res.cached)

(* Handler.Resolve; cipher = 0 for h.cipher == nil.  The fallback branch for a *)
(* body without data reads json.Unmarshal([]byte(r.Body.Read), &req), which   *)
(* converts a method value to []byte and is rejected by the compiler; r.Body  *)
(* has been read to its end by the Decode above it.  compat tells the two     *)
(* things a repaired branch can make of the body apart: TRUE, the fields of   *)
(* the body that came in; FALSE, nothing left to read, "invalid request body" *)
HandlerServe(cipher, body, world, compat) ==
    IF cipher # 0
    THEN LET data == Field(body, "data")
         IN  IF data # ""
             THEN LET decrypted == Decrypt(cipher, data)
                  IN  IF ~decrypted.ok
                      THEN BadRequest("decryption failed")
                      ELSE LET parsed == Unmarshal(decrypted.plaintext)
                           IN  IF ~parsed.ok
                               THEN BadRequest("invalid decrypted payload")
                               ELSE HandlerValidated(parsed.req, world)
             ELSE IF compat
                  THEN HandlerValidated(DecodeRequest(body), world)
                  ELSE BadRequest("invalid request body")
    ELSE HandlerValidated(DecodeRequest(body), world)

(* a client resolves (domain, type) against two servers that share a resolver: *)
(* with the key towards the one that has the cipher, without towards the other *)
SendBoth(req, k, nonce, world) ==
    /\ s_pc = "idle"
    /\ s_pc' = "sent"
    /\ s_req' = req
    /\ s_key' = k
    /\ s_nonce' = nonce
    /\ s_world' = world
    /\ UNCHANGED <<cacheVars, clientVars, envelopeVars, s_enc, s_plain, s_compat>>

ServeEncrypted(compat) ==
    /\ s_pc = "sent"
    /\ s_enc = NotServed
    /\ s_enc' = HandlerServe(s_key, ClientBody(s_key, s_req, s_nonce), s_world, compat)
    /\ s_pc' = IF s_plain # NotServed THEN "served" ELSE "sent"
    /\ UNCHANGED <<cacheVars, clientVars, envelopeVars, s_req, s_key, s_nonce, s_world, s_plain,
                   s_compat>>

ServePlain(compat) ==
    /\ s_pc = "sent"
    /\ s_plain = NotServed
    /\ s_plain' = HandlerServe(0, ClientBody(0, s_req, s_nonce), s_world, compat)
    /\ s_pc' = IF s_enc # NotServed THEN "served" ELSE "sent"
    /\ UNCHANGED <<cacheVars, clientVars, envelopeVars, s_req, s_key, s_nonce, s_world, s_enc,
                   s_compat>>

(* the server that has the cipher receives the plain body of a client without one *)
ServeCompat(compat) ==
    /\ s_pc \in {"sent", "served"}
    /\ s_compat = NotServed
    /\ s_compat' = HandlerServe(s_key, ClientBody(0, s_req, s_nonce), s_world, compat)
    /\ UNCHANGED <<cacheVars, clientVars, envelopeVars, s_pc, s_req, s_key, s_nonce, s_world,
                   s_enc, s_plain>>

ServeDone ==
    /\ s_pc = "served"
    /\ s_pc' = "idle"
    /\ s_req' = NoRequest
    /\ s_key' = 0
    /\ s_nonce' = << >>
    /\ s_world' = NoWorld
    /\ s_enc' = NotServed
    /\ s_plain' = NotServed
    /\ s_compat' = NotServed
    /\ UNCHANGED <<cacheVars, clientVars, envelopeVars>>

HandlerInit ==
    /\ s_pc = "idle"
    /\ s_req = NoRequest
    /\ s_key = 0
    /\ s_nonce = << >>
    /\ s_world = NoWorld
    /\ s_enc = NotServed
    /\ s_plain = NotServed
    /\ s_compat = NotServed

HandlerNext ==
    \/ \E req \in Requests, k \in CipherKeys, n \in Nonces, w \in Worlds : SendBoth(req, k, n, w)
    \/ \E compat \in BOOLEAN : ServeEncrypted(compat)
    \/ \E compat \in BOOLEAN : ServePlain(compat)
    \/ \E compat \in BOOLEAN : ServeCompat(compat)
    \/ ServeDone

(***************************************************************************)
(* The remote Resolver.  Resolve trims the domain, looks the key up in the *)
(* cache if there is one, and on a miss asks the upstreams, one query per  *)
(* step here; the clock and the cache's sweeper run between the steps.     *)
(***************************************************************************)
MaxUpstreams == 2
MaxResolverRetries == 2

(* the configurations of a run: the fan-out varies under a resolver that has a cache *)
ResolverConfigs ==
    {c \in [upstreams : 1..MaxUpstreams, maxRetries : 1..MaxResolverRetries,
            cacheEnabled : BOOLEAN] :
        c.cacheEnabled \/ (c.upstreams = 1 /\ c.maxRetries = 1)}

ResolverDomains == {"a", "a.", "b"}
RecordTypes == {"A", "X"}

(* TTL: 300 of every record resolveWithUpstream builds *)
UpstreamTTL == 300

DNSRecord(name, type, value) ==
    [Name |-> name, Type |-> type, Value |-> value, TTL |-> UpstreamTTL]

ResolveResult(domain, records, cached) ==
    [Domain |-> domain, Records |-> records, Cached |-> cached]

NilResult == ResolveResult("", << >>, FALSE)

(* (result, nil) and (nil, fmt.Errorf("all upstreams failed: %w", lastErr)) *)
ResolveOk(result) == [ok |-> TRUE, result |-> result, err |-> "", wraps |-> ""]
ResolveFailed(lastErr) ==
    [ok |-> FALSE, result |-> NilResult, err |-> "all upstreams failed", wraps |-> lastErr]
NotHeld == [result |-> NilResult, ExpiresAt |-> 0 - 1]
NotReturned == [ok |-> FALSE, result |-> NilResult, err |-> "", wraps |-> ""]

(* what one upstream makes of one lookup *)
UpstreamAnswer(err, values) == [err |-> err, values |-> values]
NoAnswer == UpstreamAnswer("", << >>)

UpstreamAnswers(recordType) ==
    IF recordType = "A"
    THEN {UpstreamAnswer("", <<"192.0.2.1">>), UpstreamAnswer("", <<"192.0.2.2">>),
          UpstreamAnswer("timeout", << >>), UpstreamAnswer("refused", << >>)}
    ELSE {UpstreamAnswer("unsupported record type", << >>)}

(* the lookup under ctx, cancel := context.WithTimeout(ctx, r.timeout): with ctx *)
(* done the derived context is done too, and the lookup, if the record type has *)
(* one, fails with the context's error                                          *)
CtxAnswer == UpstreamAnswer("context canceled", << >>)

LookupAnswers(ctx, recordType) ==
    IF ctx = "done" /\ recordType = "A" THEN {CtxAnswer} ELSE UpstreamAnswers(recordType)

(* resolveWithUpstream: the lookup's error, or one record for each value *)
resolveWithUpstream(domain, recordType, answer) ==
    IF answer.err # ""
    THEN [ok |-> FALSE, err |-> answer.err, result |-> NilResult]
    ELSE [ok |-> TRUE, err |-> "",
          result |-> ResolveResult(domain,
                                   [i \in 1..Len(answer.values) |->
                                       DNSRecord(domain, recordType, answer.values[i])],
                                   FALSE)]

(* Cache.Get returning the entry's own result instead of a marked copy *)
CacheHitUnmarked(result) == result

(* Resolve on a hit: result.Cached = true on the copy Get returned *)
CacheHit(result) == [result EXCEPT !.Cached = TRUE]

(* the outer loop ending after one attempt, whatever maxRetries *)
AttemptsExhaustedAfterOne(attempt, retries) == attempt >= 1

(* the outer loop's condition, "attempt < r.maxRetries", no longer holds *)
AttemptsExhausted(attempt, retries) == attempt >= retries

(* the variables of the cache that the resolver's steps leave alone *)
resolverFrame == <<cryptoVars, clientVars, tier, profile, now, maxItems, items, g_pc, g_key,
                   g_id, g_entry, g_msg, g_at, g_del, r_out, h_resp, o_pc, o_key, q_cfg>>

(* Resolve up to the first upstream query: the whole call on a cache hit *)
ResolveCall(domain, recordType) ==
    /\ q_pc = "idle"
    /\ LET key == RemoteKey(domain, recordType)
           hit == q_cfg.cacheEnabled /\ RHit(ritems, key, now)
       IN  /\ q_args' = [domain |-> TrimSuffix(domain, "."), type |-> recordType]
           /\ q_at' = now
           /\ q_held' = IF key \in DOMAIN ritems THEN ritems[key] ELSE NotHeld
           /\ q_asked' = << >>
           /\ q_last' = NoAnswer
           /\ q_ctx' = "live"
           /\ q_attempt' = 0
           /\ q_up' = 1
           /\ q_lastErr' = ""
           /\ IF hit
              THEN /\ q_res' = ResolveOk(CacheHit(ritems[key].result))
                   /\ q_pc' = "returned"
              ELSE IF q_cfg.maxRetries > 0 /\ q_cfg.upstreams > 0
                   THEN /\ q_res' = NotReturned
                        /\ q_pc' = "querying"
                   ELSE /\ q_res' = ResolveFailed("")
                        /\ q_pc' = "returned"
    /\ UNCHANGED <<resolverFrame, ritems, ev, everSet>>

(* one pass of the inner loop: resolveWithUpstream, then the return with the *)
(* result cached, or lastErr = err and the next upstream or attempt          *)
QueryUpstream(answer) ==
    /\ q_pc = "querying"
    /\ answer \in LookupAnswers(q_ctx, q_args.type)
    /\ q_asked' = Append(q_asked, q_up)
    /\ q_last' = answer
    /\ LET r == resolveWithUpstream(q_args.domain, q_args.type, answer)
           key == RemoteKey(q_args.domain, q_args.type)
           lastUp == q_up = q_cfg.upstreams
           lastAttempt == AttemptsExhausted(q_attempt + 1, q_cfg.maxRetries)
       IN  IF r.ok
           THEN /\ IF q_cfg.cacheEnabled
                   THEN \E order \in Orders(DOMAIN ritems) :
                           LET kept == EvictIfFull(ritems, maxItems, order)
                           IN  /\ ritems' = Put(kept, key, [result |-> r.result,
                                                            ExpiresAt |-> now + RemoteTTLTicks])
                               /\ ev' = Eviction(ritems, kept)
                               /\ everSet' = everSet \cup {key}
                   ELSE UNCHANGED <<ritems, ev, everSet>>
                /\ q_res' = ResolveOk(r.result)
                /\ q_pc' = "returned"
                /\ UNCHANGED <<q_attempt, q_up, q_lastErr>>
           ELSE /\ q_lastErr' = r.err
                /\ q_up' = IF lastUp THEN 1 ELSE q_up + 1
                /\ q_attempt' = IF lastUp THEN q_attempt + 1 ELSE q_attempt
                /\ IF lastUp /\ lastAttempt
                   THEN /\ q_res' = ResolveFailed(r.err)
                        /\ q_pc' = "returned"
                   ELSE /\ q_pc' = "querying"
                        /\ UNCHANGED q_res
                /\ UNCHANGED <<ritems, ev, everSet>>
    /\ UNCHANGED <<resolverFrame, q_args, q_at, q_held, q_ctx>>

(* the context Resolve was passed is cancelled, or its deadline passes, while *)
(* the call is in its loops                                                   *)
ResolveCancel ==
    /\ q_pc = "querying"
    /\ q_ctx = "live"
    /\ q_ctx' = "done"
    /\ UNCHANGED <<resolverFrame, ritems, ev, everSet, q_pc, q_args, q_attempt, q_up, q_lastErr,
                   q_res, q_at, q_held, q_asked, q_last>>

(* the caller has the result; the next call may begin *)
ResolveDone ==
    /\ q_pc = "returned"
    /\ q_pc' = "idle"
    /\ q_args' = NoArgs
    /\ q_attempt' = 0
    /\ q_up' = 1
    /\ q_lastErr' = ""
    /\ q_res' = NotReturned
    /\ q_at' = 0
    /\ q_held' = NotHeld
    /\ q_asked' = << >>
    /\ q_last' = NoAnswer
    /\ q_ctx' = "live"
    /\ UNCHANGED <<resolverFrame, ritems, ev, everSet>>

ResolverAtRest ==
    /\ q_cfg = [upstreams |-> 1, maxRetries |-> 1, cacheEnabled |-> FALSE]
    /\ q_pc = "idle"
    /\ q_args = NoArgs
    /\ q_attempt = 0
    /\ q_up = 1
    /\ q_lastErr = ""
    /\ q_res = NotReturned
    /\ q_at = 0
    /\ q_held = NotHeld
    /\ q_asked = << >>
    /\ q_last = NoAnswer
    /\ q_ctx = "live"

(* New(cfg): the cache, if enabled, is empty *)
ResolverInit ==
    /\ q_cfg \in ResolverConfigs
    /\ q_pc = "idle"
    /\ q_args = NoArgs
    /\ q_attempt = 0
    /\ q_up = 1
    /\ q_lastErr = ""
    /\ q_res = NotReturned
    /\ q_at = 0
    /\ q_held = NotHeld
    /\ q_asked = << >>
    /\ q_last = NoAnswer
    /\ q_ctx = "live"
    /\ tier = "remote"
    /\ profile = "deep"
    /\ now = 0
    /\ maxItems \in {1, MaxCap}
    /\ items = Empty
    /\ g_pc = "idle"
    /\ g_key = ""
    /\ g_id = 0
    /\ g_entry = NoEntry
    /\ g_msg = NilMsg
    /\ g_at = 0
    /\ everSet = {}
    /\ ritems = REmpty
    /\ r_out = NoOut
    /\ ev = NoEv
    /\ g_del = FALSE
    /\ h_resp = NoResp
    /\ o_pc = "idle"
    /\ o_key = ""

ResolverNext ==
    \/ \E d \in ResolverDomains, t \in RecordTypes : ResolveCall(d, t)
    \/ \E answer \in {CtxAnswer} \cup UNION {UpstreamAnswers(t) : t \in RecordTypes} :
          QueryUpstream(answer)
    \/ ResolveDone
    \/ RCleanup
    \/ Tick

(* the resolver under callers that may give up *)
CancellableNext ==
    \/ \E d \in ResolverDomains, t \in RecordTypes : ResolveCall(d, t)
    \/ \E answer \in {CtxAnswer} \cup UNION {UpstreamAnswers(t) : t \in RecordTypes} :
          QueryUpstream(answer)
    \/ ResolveCancel
    \/ ResolveDone
    \/ RCleanup
    \/ Tick

(***************************************************************************)
(* One record from the upstream lookup to the listener's reply: the        *)
(* resolver's resolveWithUpstream turns what the lookup returned into a    *)
(* DNSRecord with a text value, and the listener's createRR turns the      *)
(* DNSRecord into the RR of the reply.                                     *)
(***************************************************************************)
QueryNames == {"example.com.", "EXAMPLE.com.", "a."}
MXPrefs == {0, 5, 10, 20, 65535}
MXHosts == {"mail.example.com.", "mx.example.com.", "a."}

(* what net.Resolver's lookups return, record by record *)
Upstream(type, pref, host) == [type |-> type, pref |-> pref, host |-> host]
NoUpstream == Upstream("", 0, "")

UpstreamRecords ==
    {Upstream("A", 0, ip) : ip \in IPv4s}
    \cup {Upstream("AAAA", 0, ip) : ip \in IPv6s}
    \cup {Upstream("CNAME", 0, h) : h \in {"www.example.com."}}
    \cup {Upstream("NS", 0, h) : h \in {"ns.example.com."}}
    \cup {Upstream("TXT", 0, t) : t \in {"v=spf1 -all"}}
    \cup {Upstream("MX", p, h) : p \in MXPrefs, h \in MXHosts}

(* resolveWithUpstream: the record's Value; fmt.Sprintf("%d %s", mx.Pref, mx.Host) for MX *)
RecordValue(up) ==
    IF up.type = "MX" THEN ToString(up.pref) \o " " \o up.host ELSE up.host

(* dns.Fqdn: the name with a dot at its end *)
Fqdn(str) ==
    IF Len(str) > 0 /\ SubSeq(str, Len(str), Len(str)) = "." THEN str ELSE str \o "."

(* ip.To4() and ip.To16() of the parsed address; "" for nil, and the 16-byte *)
(* form of an IPv4 address is its IPv4-mapped IPv6 address                 *)
To4(value) == IF value \in IPv4s THEN value ELSE ""
To16(value) == IF value \in IPv4s THEN "::ffff:" \o value ELSE value

NoRR == [ok |-> FALSE, Name |-> "", Rrtype |-> "", Ttl |-> 0, Preference |-> 0, Rdata |-> ""]

RR(name, rec, preference, rdata) ==
    [ok |-> TRUE, Name |-> name, Rrtype |-> rec.Type, Ttl |-> createRRTtl(rec),
     Preference |-> preference, Rdata |-> rdata]

(* createRR, case "MX": Preference: 10 *)
MXPreference == 10

(* createRR: the RR for the record, or an error *)
createRR(rec, name) ==
    IF ~createRROk(rec)
    THEN NoRR
    ELSE CASE rec.Type = "A" -> RR(name, rec, 0, To4(rec.Value))
           [] rec.Type = "AAAA" -> RR(name, rec, 0, To16(rec.Value))
           [] rec.Type = "TXT" -> RR(name, rec, 0, rec.Value)
           [] rec.Type = "MX" -> RR(name, rec, MXPreference, Fqdn(rec.Value))
           [] OTHER -> RR(name, rec, 0, Fqdn(rec.Value))

(* the resolver has the lookup's record and makes its DNSRecord *)
RemoteRecord(name, up) ==
    /\ m_pc = "idle"
    /\ m_pc' = "remote"
    /\ m_name' = name
    /\ m_up' = up
    /\ m_rec' = DNSRecord(TrimSuffix(name, "."), up.type, RecordValue(up))
    /\ UNCHANGED <<cacheVars, cryptoVars, clientCfg, queryVars, probeVars, healthy, currentIndex, c_pc, c_attempt,
                   c_scan, c_sel, c_lastErr, c_ctx, c_cancelAt, c_result, c_log, c_clean,
                   c_quiet, rrWindow, c_exch, m_rr>>

(* address records as an RPC body can carry them: the listener decodes whatever *)
(* JSON the endpoint answered, of either family under either type, or no address *)
AddressValues == ValidIPs \cup {"bad", ""}
AddressRecords == {DNSRecord("example.com", t, v) : t \in {"A", "AAAA"}, v \in AddressValues}

(* a record of the decoded ResolveResponse, whoever made it *)
DecodedRecord(name, rec) ==
    /\ m_pc = "idle"
    /\ m_pc' = "remote"
    /\ m_name' = name
    /\ m_rec' = rec
    /\ UNCHANGED <<cacheVars, cryptoVars, clientCfg, queryVars, probeVars, healthy, currentIndex, c_pc, c_attempt,
                   c_scan, c_sel, c_lastErr, c_ctx, c_cancelAt, c_result, c_log, c_clean,
                   c_quiet, rrWindow, c_exch, m_up, m_rr>>

(* the record has crossed the RPC; resolveViaAPI: rr, err := s.createRR(rec, q.Name) *)
LocalRR ==
    /\ m_pc = "remote"
    /\ m_pc' = "local"
    /\ m_rr' = createRR(Rec(m_rec.Type, m_rec.Value, m_rec.TTL), m_name)
    /\ UNCHANGED <<cacheVars, cryptoVars, clientCfg, queryVars, probeVars, healthy, currentIndex, c_pc, c_attempt,
                   c_scan, c_sel, c_lastErr, c_ctx, c_cancelAt, c_result, c_log, c_clean,
                   c_quiet, rrWindow, c_exch, m_name, m_up, m_rec>>

RecordDone ==
    /\ m_pc = "local"
    /\ m_pc' = "idle"
    /\ m_name' = ""
    /\ m_up' = NoUpstream
    /\ m_rec' = DNSRecord("", "", "")
    /\ m_rr' = NoRR
    /\ UNCHANGED <<cacheVars, cryptoVars, clientCfg, queryVars, probeVars, healthy, currentIndex, c_pc, c_attempt,
                   c_scan, c_sel, c_lastErr, c_ctx, c_cancelAt, c_result, c_log, c_clean,
                   c_quiet, rrWindow, c_exch>>

RecordInit ==
    /\ m_pc = "idle"
    /\ m_name = ""
    /\ m_up = NoUpstream
    /\ m_rec = DNSRecord("", "", "")
    /\ m_rr = NoRR

RecordNext ==
    \/ \E name \in QueryNames, up \in UpstreamRecords : RemoteRecord(name, up)
    \/ \E name \in QueryNames, rec \in AddressRecords : DecodedRecord(name, rec)
    \/ LocalRR
    \/ RecordDone

CacheAtRest ==
    /\ tier = "local"
    /\ profile = "deep"
    /\ now = 0
    /\ maxItems = 1
    /\ items = Empty
    /\ g_pc = "idle"
    /\ g_key = ""
    /\ g_id = 0
    /\ g_entry = NoEntry
    /\ g_msg = NilMsg
    /\ g_at = 0
    /\ everSet = {}
    /\ ritems = REmpty
    /\ r_out = NoOut
    /\ ev = NoEv
    /\ g_del = FALSE
    /\ h_resp = NoResp
    /\ o_pc = "idle"
    /\ o_key = ""

ClientAtRest ==
    /\ ClientInit
    /\ RecordInit
    /\ ProbeTaskInit
    /\ QueryInit
    /\ nCallers = 1
    /\ nEndpoints = 1
    /\ loadBalancing = "round_robin"
    /\ maxRetries = 1

RemoteAtRest == CryptoInit /\ HandlerInit /\ ResolverAtRest

InitCache == CacheInit /\ ClientAtRest /\ RemoteAtRest

InitClient == ClientInit /\ RecordInit /\ ProbeTaskInit /\ QueryInit /\ CacheAtRest /\ RemoteAtRest

SpecCache == InitCache /\ [][CacheNext]_vars

SpecClient == InitClient /\ [][ClientNext]_vars

(* the client with one caller, its requests and the probes of its pool *)
InitProbe == InitClient /\ nCallers = 1

SpecProbe == InitProbe /\ [][ClientNext]_vars

InitListener == ListenerInit /\ ClientAtRest /\ RemoteAtRest

SpecListener == InitListener /\ [][ListenerNext]_vars

InitCrypto == CryptoInit /\ HandlerInit /\ ResolverAtRest /\ CacheAtRest /\ ClientAtRest

SpecCrypto == InitCrypto /\ [][CryptoNext]_vars

InitHandler == HandlerInit /\ CryptoInit /\ ResolverAtRest /\ ClientAtRest /\ CacheAtRest

SpecHandler == InitHandler /\ [][HandlerNext]_vars

InitResolver == ResolverInit /\ ClientAtRest /\ CryptoInit /\ HandlerInit

SpecResolver == InitResolver /\ [][ResolverNext]_vars

InitCancellable == InitResolver /\ maxItems = 1

SpecCancellable == InitCancellable /\ [][CancellableNext]_vars

InitRecord == RecordInit /\ ClientAtRest /\ CacheAtRest /\ RemoteAtRest

SpecRecord == InitRecord /\ [][RecordNext]_vars

InitHealthURL == ProbeTaskInit /\ ClientAtRest /\ CacheAtRest /\ RemoteAtRest

SpecHealthURL == InitHealthURL /\ [][ProbeTaskNext]_vars

InitQuery == QueryInit /\ ClientAtRest /\ CacheAtRest /\ RemoteAtRest

SpecQuery == InitQuery /\ [][QueryNext]_vars

----------------------------------------------------------------------------
(* Properties of the caches, checked under SpecCache *)

\* C1: capacity bound. In each cache, after any sequence of Set operations, with
\* any keys and any max_items the constructor accepts, the number of stored
\* entries never exceeds max_items.
C1_CapacityBound ==
    /\ CacheLen(items) <= maxItems
    /\ CacheLen(ritems) <= maxItems

\* C2: no stale hit. In both caches a Get reports a hit only for a key that was
\* set, whose entry was present when the map was read, and only if the clock the
\* Get read is not after the entry's expires_at; so a Get made after the expiry,
\* or for a key never set, reports a miss.
C2_NoStaleHit ==
    /\ g_pc = "hit" =>
          /\ g_key \in everSet
          /\ g_entry # NoEntry
          /\ g_at <= g_entry.ExpiresAt
    /\ (r_out.live /\ r_out.hit) =>
          /\ r_out.key \in everSet
          /\ r_out.key \in DOMAIN ritems
          /\ now <= ritems[r_out.key].ExpiresAt
          /\ r_out.result = ritems[r_out.key].result
    /\ (r_out.live /\ r_out.key \in DOMAIN ritems /\ now > ritems[r_out.key].ExpiresAt) =>
          ~r_out.hit

\* C2 witness: a local hit at the last instant of the entry's life, some time
\* after the entry was stored.
C2_Witness ==
    /\ g_pc = "hit"
    /\ g_at = g_entry.ExpiresAt
    /\ g_at > g_entry.CreatedAt

\* C3: TTL clamp. Every entry inserted into the local cache, through Set or
\* SetNegative, has min_ttl <= expires_at - created_at <= max_ttl.
C3_TTLClamp ==
    \A k \in DOMAIN items :
        /\ minTTL <= items[k].ExpiresAt - items[k].CreatedAt
        /\ items[k].ExpiresAt - items[k].CreatedAt <= maxTTL

C5_ReadsDoNotMutate ==
    [][((g_pc = "found" /\ g_pc' = "hit") \/ (g_pc = "hit" /\ g_pc' = "idle"))
          => items' = items]_vars

\* C5 witness: a hit whose result differs from the stored message (decremented
\* TTL), about to get another transaction ID, while the entry read is still the
\* one in the map.
C5_Witness ==
    /\ g_pc = "hit"
    /\ g_key \in DOMAIN items
    /\ items[g_key] = g_entry
    /\ g_msg # g_entry.Msg
    /\ g_id # g_msg.Id

\* C6: eviction policy. Whenever Set or SetNegative runs with len >= max_items,
\* exactly one entry is removed before the insert and it has the minimum
\* expires_at of the entries present; with len < max_items none is removed.
C6_EvictionPolicy ==
    ev.ran =>
        IF ev.len >= maxItems
        THEN Cardinality(ev.removed) = 1 /\ ev.minimal
        ELSE ev.removed = {}

----------------------------------------------------------------------------
(* Properties of the listener, checked under SpecListener *)

(* the step in which handleRequest answers a query whose Client.Resolve failed *)
FailureReplyStep == g_pc = "failed" /\ g_pc' = "idle"

(* C16, as stated: when Client.Resolve returns an error the listener answers    *)
(* SERVER_FAILURE and the handling of the query has changed nothing in the      *)
(* local cache: it stored nothing and deleted nothing.                          *)
C16_CacheExactlyAsBefore ==
    [][FailureReplyStep =>
          /\ h_resp'.msg.Rcode = "SERVFAIL"
          /\ items' = items
          /\ ~h_resp'.stored
          /\ ~h_resp'.deleted]_vars

(* C16, amended: when Client.Resolve returns an error the listener answers      *)
(* SERVER_FAILURE with no answers and stores nothing; the only change the       *)
(* handling of the query can have made to the local cache is the deletion, by   *)
(* its cache read, of the entry under its key after it found an expired entry   *)
(* there.                                                                       *)
C16_RpcFailure ==
    [][FailureReplyStep =>
          /\ h_resp'.msg.Rcode = "SERVFAIL"
          /\ h_resp'.msg.Answer = << >>
          /\ h_resp'.msg.Id = h_resp'.qid
          /\ items' = items
          /\ ~h_resp'.stored
          /\ (h_resp'.deleted =>
                /\ h_resp'.entry # NoEntry
                /\ Expired(h_resp'.entry.ExpiresAt, h_resp'.at))]_vars

(* a failed RPC answered while the cache holds an entry, after the read of the *)
(* query removed an expired one                                                *)
C16_Witness ==
    /\ h_resp.live
    /\ h_resp.via = "rpc"
    /\ h_resp.msg.Rcode = "SERVFAIL"
    /\ h_resp.deleted
    /\ items # Empty

TypedQuestions == [Name : AllNames, Qtype : {1, 15, 28}]
DotSpellings(domain) == {domain, domain \o ".", domain \o ".."}

(* the questions whose answers the listener has stored so far *)
StoredQuestions == {q \in Questions : Key(q) \in everSet}

(* C18: questions whose owner names differ only in letter case and whose types  *)
(* are equal have one key in the local cache and one key in the remote cache;   *)
(* at the remote the key is also the same however many trailing dots the domain *)
(* is spelt with; questions with different type mnemonics have different keys.  *)
C18_KeyNormalization ==
    /\ \A q1, q2 \in StoredQuestions :
          (ToLower(q1.Name) = ToLower(q2.Name) /\ q1.Qtype = q2.Qtype) =>
             /\ Key(q1) = Key(q2)
             /\ RemoteKeyOf(q1) = RemoteKeyOf(q2)
    /\ \A q \in StoredQuestions : \A d \in DotSpellings(RpcDomain(q)) :
          RemoteKey(d, HandlerType(RpcType(q))) = RemoteKeyOf(q)
    /\ \A q1, q2 \in TypedQuestions :
          TypeToString(q1.Qtype) # TypeToString(q2.Qtype) =>
             /\ Key(q1) # Key(q2)
             /\ RemoteKeyOf(q1) # RemoteKeyOf(q2)

(* C19: while an entry stored for an answered miss is in the cache, identical    *)
(* queries are answered from it.  An entry leaves the cache only by expiring or *)
(* by being evicted by an insertion; a query goes to the RPC only if its read   *)
(* found no entry or an expired one; and a query answered from the cache gets   *)
(* the records of the entry, in their order, as a NOERROR reply carrying the    *)
(* query's own transaction ID.                                                  *)
C19_IdempotentWhileCached ==
    [][/\ \A k \in DOMAIN items :
             k \notin DOMAIN items' =>
                \/ Expired(items[k].ExpiresAt, now)
                \/ k \in ev'.removed
       /\ (h_resp'.live /\ h_resp'.via = "rpc") =>
             \/ h_resp'.entry = NoEntry
             \/ Expired(h_resp'.entry.ExpiresAt, h_resp'.at)
       /\ (h_resp'.live /\ h_resp'.via = "cache") =>
             /\ h_resp'.msg.Id = h_resp'.qid
             /\ h_resp'.msg.Rcode = "NOERROR"
             /\ h_resp'.msg.Rdata = h_resp'.entry.Msg.Rdata
             /\ Len(h_resp'.msg.Answer) = Len(h_resp'.entry.Msg.Answer)
       /\ (h_resp'.live /\ h_resp'.stored) =>
             /\ h_resp'.key \in DOMAIN items'
             /\ items'[h_resp'.key].Msg = h_resp'.msg]_vars

----------------------------------------------------------------------------
(* Properties of the RPC client, checked under SpecClient *)

\* C7: retry bound. One call of Resolve issues at most max_retries POSTs; an
\* attempt that succeeds is the last one of the call and its result is what the
\* call returns; when max_retries attempts have all failed the call returns
\* "all attempts failed" wrapping the error of the last attempt, and it returns
\* that only then.
C7_RetryBound ==
    \A c \in Callers :
        LET log == c_log[c]
            n == Len(log)
        IN  /\ n <= maxRetries
            /\ \A i \in 1..n :
                  log[i].out = "ok" =>
                      /\ i = n
                      /\ c_pc[c] = "done"
                      /\ c_result[c] = OkResult(log[i].ep)
            /\ (n >= 1 /\ n = maxRetries /\ \A i \in 1..n : log[i].out # "ok") =>
                  /\ c_pc[c] = "done"
                  /\ c_result[c] = AllFailed(log[n].out)
            /\ c_result[c].kind = "all_attempts_failed" =>
                  /\ n = maxRetries
                  /\ \A i \in 1..n : log[i].out # "ok"

\* C7 witness: a call that returned "all attempts failed" after max_retries >= 2
\* attempts whose first and last errors differ.
C7_Witness ==
    \E c \in Callers :
        /\ c_pc[c] = "done"
        /\ c_result[c].kind = "all_attempts_failed"
        /\ Len(c_log[c]) = maxRetries
        /\ maxRetries >= 2
        /\ c_log[c][1].out # c_log[c][maxRetries].out

\* C8: pessimistic health marking. Every step of Resolve that completes a POST
\* attempt made it on the endpoint selected, and sets healthy=false on exactly
\* that endpoint if the attempt failed, and changes no health flag if it
\* succeeded.
C8_HealthMarking ==
    [][\A c \in Callers :
          Len(c_log'[c]) = Len(c_log[c]) + 1 =>
              LET a == c_log'[c][Len(c_log'[c])]
              IN  /\ a.ep = c_sel[c]
                  /\ IF a.out = "ok"
                     THEN healthy' = healthy
                     ELSE healthy' = [healthy EXCEPT ![a.ep] = FALSE]]_vars

\* C8 witness: a failed attempt has just been made on an endpoint other than the
\* first; that endpoint is marked unhealthy and the first one is still healthy.
C8_Witness ==
    \E c \in Callers :
        /\ c_pc[c] = "wait"
        /\ Len(c_log[c]) >= 1
        /\ c_log[c][Len(c_log[c])].ep # 0
        /\ ~healthy[c_log[c][Len(c_log[c])].ep]
        /\ healthy[0]

\* C9: failover scenario. Endpoints E1, E2 both healthy at the start of the call,
\* policy failover, max_retries = 3, E1 answering 503 and E2 answering 200, nobody
\* else writing a health flag, the context live: the call attempts E1 first,
\* then E2 and nothing else, returns E2's result, and leaves E1 unhealthy and E2
\* healthy.
C9_InScenario(c) ==
    /\ nEndpoints = 2
    /\ loadBalancing = "failover"
    /\ maxRetries = 3
    /\ c_clean[c]
    /\ c_ctx[c] = "live"
    /\ \A i \in 1..Len(c_log[c]) :
          c_log[c][i].out = (IF c_log[c][i].ep = 0 THEN "status" ELSE "ok")

C9_FailoverScenario ==
    \A c \in Callers :
        C9_InScenario(c) =>
            /\ Len(c_log[c]) <= 2
            /\ Len(c_log[c]) >= 1 => c_log[c][1].ep = 0 /\ ~healthy[0]
            /\ Len(c_log[c]) = 2 => c_log[c][2].ep = 1
            /\ healthy[1]
            /\ c_pc[c] = "done" =>
                  /\ c_log[c] = <<[ep |-> 0, out |-> "status"], [ep |-> 1, out |-> "ok"]>>
                  /\ c_result[c] = OkResult(1)
                  /\ healthy = [e \in Endpoints |-> e = 1]

\* C9 witness: the scenario's call has returned after its two attempts.
C9_Witness ==
    \E c \in Callers :
        /\ C9_InScenario(c)
        /\ c_pc[c] = "done"
        /\ Len(c_log[c]) = 2

\* C10: round-robin fairness, for k = 1. Any n consecutive round-robin
\* selections made while all n endpoints are healthy throughout select each
\* endpoint exactly once, also across a wrap of the counter.
C10_RoundRobinFair ==
    Len(rrWindow) = nEndpoints =>
        {rrWindow[i] : i \in 1..Len(rrWindow)} = Endpoints

\* C11: failover stability. Whenever a failover selection returns an endpoint
\* that is healthy at that moment, every endpoint of lower index is unhealthy at
\* that moment, probes and failing requests writing health flags during the scan
\* included.
C11_FailoverStability ==
    [][\A c \in Callers :
          (/\ loadBalancing = "failover"
           /\ c_pc[c] = "select"
           /\ c_pc'[c] = "request"
           /\ healthy[c_sel'[c]])
          => \A e \in Endpoints : e < c_sel'[c] => ~healthy[e]]_vars

\* C12: round-robin picks a healthy endpoint when one exists. A round-robin
\* selection during which no health flag changed, made with at least one
\* endpoint healthy, returns a healthy endpoint, other calls running their
\* selections at the same time included.
C12_RoundRobinPicksHealthy ==
    [][\A c \in Callers :
          (/\ loadBalancing # "failover"
           /\ c_pc[c] = "select"
           /\ c_pc'[c] = "request"
           /\ c_quiet[c]
           /\ HealthySet(healthy) # {})
          => healthy[c_sel'[c]]]_vars

\* C13: last-resort attempt. Under both policies a selection made while every
\* endpoint is unhealthy returns the endpoint at index 0, and the call goes on to
\* its POST (it is at the call of doRequest) instead of returning without one.
C13_LastResort ==
    \A c \in Callers :
        /\ (c_pc[c] = "request" /\ c_quiet[c] /\ HealthySet(healthy) = {}) => c_sel[c] = 0
        /\ (c_pc[c] = "done" /\ maxRetries >= 1) => Len(c_log[c]) >= 1

\* C13 witness: a selection over a pool of two or more, all unhealthy from its
\* start to now, has returned and the call is about to post.
C13_Witness ==
    \E c \in Callers :
        /\ c_pc[c] = "request"
        /\ c_quiet[c]
        /\ nEndpoints >= 2
        /\ HealthySet(healthy) = {}
        /\ c_sel[c] = 0

\* C14: client cancellation. No POST is put on the wire once the caller's context
\* is done; and a call whose context is cancelled while it is blocked in the
\* back-off wait leaves the wait only by returning the context's error, with no
\* further attempt.
C14_Cancellation ==
    [][\A c \in Callers :
          /\ (c_pc[c] # "inflight" /\ c_pc'[c] = "inflight") => c_ctx[c] = "live"
          /\ (c_cancelAt[c] = "wait" /\ c_pc[c] = "wait" /\ c_pc'[c] # "wait")
                => /\ c_pc'[c] = "done"
                   /\ c_result'[c] = CtxErr
                   /\ c_log'[c] = c_log[c]]_vars

\* C14 witness: a call cancelled during its back-off wait has returned the
\* context's error after a single attempt, with attempts left.
C14_Witness ==
    \E c \in Callers :
        /\ c_pc[c] = "done"
        /\ c_cancelAt[c] = "wait"
        /\ c_result[c] = CtxErr
        /\ Len(c_log[c]) = 1
        /\ maxRetries >= 2


(* the POST attempts of caller c whose request the remote handler resolved and *)
(* whose resolver failed                                                       *)
ResolutionFailures(c) ==
    {i \in 1..Len(c_exch[c]) : c_exch[c][i].kind = "http" /\ c_exch[c][i].resolver = "failed"}

(* C15: when the remote resolver fails the handler answers 200 with a non-empty *)
(* error field; for the client that attempt is a success: it is the call's last *)
(* POST, Resolve returns its body at once and no health flag changes in that    *)
(* step; and from that body the listener builds an NXDOMAIN reply with no       *)
(* answers.                                                                     *)
C15_InBandErrors ==
    /\ [](\A c \in Callers : \A i \in ResolutionFailures(c) :
            /\ c_exch[c][i].status = 200
            /\ c_exch[c][i].body.Error # ""
            /\ c_log[c][i].out = "ok"
            /\ i = Len(c_log[c])
            /\ c_pc[c] = "done"
            /\ c_result[c] = OkResult(c_log[c][i].ep)
            /\ resolveViaAPI(1, c_exch[c][i].body).Rcode = "NXDOMAIN"
            /\ resolveViaAPI(1, c_exch[c][i].body).Answer = << >>)
    /\ [][\A c \in Callers :
            (Len(c_exch'[c]) > Len(c_exch[c]) /\ Len(c_exch'[c]) \in ResolutionFailures(c)')
               => healthy' = healthy]_vars

(* a call whose first POST failed in transit and whose second brought an in-band *)
(* resolution error, returned while the first endpoint is still marked unhealthy *)
C15_Witness ==
    \E c \in Callers :
        /\ c_pc[c] = "done"
        /\ Len(c_exch[c]) = 2
        /\ c_exch[c][1].kind = "lost"
        /\ 2 \in ResolutionFailures(c)
        /\ ~healthy[c_log[c][1].ep]


----------------------------------------------------------------------------
(* Properties of the envelope, checked under SpecCrypto *)

(* C20: for every plaintext, the empty one included, every key and every nonce *)
(* Encrypt draws, Decrypt of what Encrypt returned succeeds and returns the    *)
(* plaintext.                                                                  *)
C20_RoundTrip == e_pc = "opened" => e_out = Plain(e_msg)

(* the empty plaintext has gone round: what travelled was nonce and tag only *)
C20_Witness ==
    /\ e_pc = "opened"
    /\ e_msg = << >>
    /\ Len(e_wire) = NonceSize + TagSize
    /\ e_out.ok


(* the strings that are what Encrypt returns under key k for some plaintext and *)
(* some nonce: the text has a letter for each byte of nonce, plaintext and tag  *)
Authentic(k, encoded) ==
    /\ Len(encoded) >= NonceSize + TagSize
    /\ \E n \in Nonces : \E m \in ByteSeqs(Len(encoded) - NonceSize - TagSize) :
          encoded = Encrypt(k, m, n)

(* the key strings NewCipher is to accept: 2 * KeySize hexadecimal digits *)
ValidKeyString(hexKey) ==
    /\ Len(hexKey) = 2 * KeySize
    /\ \A i \in 1..Len(hexKey) : HexDigit(SubSeq(hexKey, i, i)) >= 0

(* C21: NewCipher returns an error and no cipher for every key string that is  *)
(* not valid hex or does not decode to exactly the key size, the empty string  *)
(* included, and a cipher otherwise; Decrypt returns an error and no plaintext *)
(* for every input that is not what Encrypt returns under the cipher's key:    *)
(* not base64, shorter than the nonce, or failing authentication.              *)
C21_FailureModes ==
    /\ e_pc = "built" =>
          /\ n_out.ok <=> ValidKeyString(n_hex)
          /\ ~n_out.ok => n_out = NoCipher
    /\ e_pc = "tried" =>
          /\ e_out.ok <=> Authentic(e_key, e_wire)
          /\ ~DecodeString(e_wire).ok => e_out = CryptoErr
          /\ Len(e_wire) < NonceSize => e_out = CryptoErr
          /\ ~e_out.ok => e_out = CryptoErr

(* an input that is base64 and as long as a sealed byte, and is refused for its *)
(* tag                                                                          *)
C21_Witness ==
    /\ e_pc = "tried"
    /\ DecodeString(e_wire).ok
    /\ Len(e_wire) = NonceSize + TagSize + 1
    /\ ~e_out.ok


CallKey == RemoteKey(q_args.domain, q_args.type)

HeldAtCall ==
    /\ q_cfg.cacheEnabled
    /\ q_held # NotHeld
    /\ ~Expired(q_held.ExpiresAt, q_at)

(* a call returns what an upstream answered *)
MissSucceeds == q_pc = "querying" /\ q_pc' = "returned" /\ q_res'.ok

(* C23: once Resolve(d, t) has succeeded on a miss, its result is in the cache *)
(* under the key of (d, t) until it expires or is evicted, and every Resolve   *)
(* of (d, t) that finds it there returns the stored domain and records with    *)
(* cached = true and without an upstream query; the result of the miss itself  *)
(* has cached = false.                                                         *)
C23_CacheHit ==
    /\ [](q_pc = "returned" =>
            IF HeldAtCall
            THEN /\ q_res.ok
                 /\ q_res.result.Domain = q_held.result.Domain
                 /\ q_res.result.Records = q_held.result.Records
                 /\ q_res.result.Cached
                 /\ q_asked = << >>
            ELSE q_res.ok => ~q_res.result.Cached /\ q_asked # << >>)
    /\ [][MissSucceeds /\ q_cfg.cacheEnabled =>
             /\ CallKey \in DOMAIN ritems'
             /\ ritems'[CallKey].result.Domain = q_res'.result.Domain
             /\ ritems'[CallKey].result.Records = q_res'.result.Records
             /\ ritems'[CallKey].ExpiresAt = now + RemoteTTLTicks]_vars

(* a hit some ticks after the run began, with the stored records *)
C23_Witness ==
    /\ q_pc = "returned"
    /\ HeldAtCall
    /\ q_at > 0
    /\ q_res.result.Cached
    /\ q_res.result.Records # << >>

(* the upstreams in configured order, attempt after attempt *)
ConfiguredOrder ==
    [i \in 1..(q_cfg.maxRetries * q_cfg.upstreams) |-> ((i - 1) % q_cfg.upstreams) + 1]

(* a step that made an upstream query *)
Queried == q_pc = "querying" /\ Len(q_asked') = Len(q_asked) + 1

(* C24: on a miss the upstreams are queried in configured order within each   *)
(* attempt, attempt after attempt; the first success ends the call and is its *)
(* result; a call makes at most max_retries * |upstreams| queries; it returns *)
(* an error only when all of these have failed, the error carries the last    *)
(* failure, and the failed queries leave the cache as it was.                 *)
C24_FanOut ==
    /\ [](/\ Len(q_asked) <= q_cfg.maxRetries * q_cfg.upstreams
          /\ q_asked = SubSeq(ConfiguredOrder, 1, Len(q_asked))
          /\ q_pc = "returned" /\ ~q_res.ok =>
                /\ Len(q_asked) = q_cfg.maxRetries * q_cfg.upstreams
                /\ q_last.err # ""
                /\ q_res.wraps = q_last.err)
    /\ [][Queried =>
             IF q_last'.err = ""
             THEN /\ q_pc' = "returned"
                  /\ q_res' = ResolveOk(resolveWithUpstream(q_args.domain, q_args.type,
                                                            q_last').result)
             ELSE /\ ritems' = ritems
                  /\ q_pc' = "returned" => ~q_res'.ok]_vars

(* every upstream failed in every attempt, the last with a refusal *)
C24_Witness ==
    /\ q_pc = "returned"
    /\ ~q_res.ok
    /\ q_cfg.upstreams > 1
    /\ q_cfg.maxRetries > 1
    /\ Len(q_asked) = q_cfg.maxRetries * q_cfg.upstreams
    /\ q_res.wraps = "refused"


(* C25: when a probe completes, the probed endpoint's flag equals (status =  *)
(* 200), and false after a transport error or a time-out; the probe changes  *)
(* no other endpoint's flag.  A probe moves no caller, so only the steps that *)
(* leave every caller where it is are looked at.                              *)
C25_ProbeOutcome ==
    [][c_pc' = c_pc =>
          \A e \in Endpoints, outcome \in ProbeOutcomes :
              checkEndpoint(e, outcome) =>
                  /\ healthy'[e] = (~outcome.err /\ outcome.status = 200)
                  /\ \A other \in Endpoints \ {e} : healthy'[other] = healthy[other]]_vars

(* an endpoint that failed an attempt of the call in progress, and was marked *)
(* for it, is healthy again beside an endpoint that is not: a probe of it has *)
(* been answered with 200                                                     *)
C25_Witness ==
    \E c \in Callers : \E i \in 1..Len(c_log[c]) :
        /\ c_pc[c] # "idle"
        /\ c_log[c][i].out # "ok"
        /\ healthy[c_log[c][i].ep]
        /\ \E other \in Endpoints : ~healthy[other]


(* the step of a local Get that deletes, and the entry it finds under the key *)
GetDeletes == g_pc = "expired" /\ g_pc' = "miss" /\ g_key \in DOMAIN items

(* C26: every concurrent history of Get and Set on one cache is equivalent to a *)
(* sequential order of the calls consistent with real time, in which a Get      *)
(* returns the latest unexpired value set for the key and removes only an       *)
(* expired entry.  Set runs under the write lock from end to end and takes      *)
(* effect at once; so the entry a local Get deletes has to be expired when it   *)
(* is deleted, and a remote Get, which is one critical section, has to return   *)
(* the entry then stored under the key unless it has expired.                   *)
C26_Linearizable ==
    /\ [][GetDeletes => Expired(items[g_key].ExpiresAt, now)]_vars
    /\ [](r_out.live =>
            IF r_out.key \in DOMAIN ritems /\ ~Expired(ritems[r_out.key].ExpiresAt, now)
            THEN r_out.hit /\ r_out.result = ritems[r_out.key].result
            ELSE ~r_out.hit)


(* the reply handleRequest is about to write once resolveViaAPI has returned *)
ReplyInHand == IF g_pc' = "failed" THEN writeError(g_id) ELSE g_msg'

(* the values of the records of an RPC result that createRR makes RRs of, in order *)
Constructed(rpc) ==
    LET made == SelectSeq(rpc.Records, createRROk)
    IN  [i \in 1..Len(made) |-> made[i].Value]

(* the RPC results the claim is about: no error, and a record at least *)
WithRecords(rpc) == ~rpc.err /\ rpc.Error = "" /\ rpc.Records # << >>

(* C27: when the RPC result has no error and a non-empty record list, the     *)
(* reply is SERVER_FAILURE if every record fails to construct, and otherwise  *)
(* NOERROR with exactly the constructed records, in order.                    *)
C27_PartialRecordFailure ==
    [][g_pc = "miss" =>
          \A rpc \in RpcChoices :
              ResolveReturn(rpc) /\ WithRecords(rpc) =>
                  IF Constructed(rpc) = << >>
                  THEN ReplyInHand.Rcode = "SERVFAIL"
                  ELSE /\ ReplyInHand.Rcode = "NOERROR"
                       /\ ReplyInHand.Rdata = Constructed(rpc)]_vars


(* C28: an MX record the upstream returns with preference 20 and host          *)
(* mail.example.com. leaves the resolver with the value "20 mail.example.com." *)
(* and becomes, in the listener's reply, an MX RR with preference 10 whose     *)
(* exchange is exactly mail.example.com.; so for every MX record: preference   *)
(* 10 and the upstream's host as the exchange.                                 *)
C28_MXPipeline ==
    /\ m_pc \in {"remote", "local"} /\ m_up = Upstream("MX", 20, "mail.example.com.") =>
          m_rec.Value = "20 mail.example.com."
    /\ m_pc = "local" /\ m_up.type = "MX" =>
          /\ m_rr.ok
          /\ m_rr.Rrtype = "MX"
          /\ m_rr.Preference = 10
          /\ m_rr.Rdata = m_up.host


(* C29: when Get(key) finds an entry whose expiry has passed, the entry is    *)
(* absent from the cache when Get returns, and the cache one entry shorter    *)
(* for it, in the local cache and in the remote cache alike.                  *)
C29_ExpiryOnRead ==
    /\ [][g_pc = "expired" /\ g_pc' = "miss" =>
             /\ g_key \notin DOMAIN items'
             /\ g_key \in DOMAIN items => CacheLen(items') = CacheLen(items) - 1]_vars
    /\ [](r_out.live /\ ~r_out.hit => r_out.key \notin DOMAIN ritems)


(* caller c takes a step of a round-robin selection *)
RoundRobinStep(c) ==
    /\ loadBalancing # "failover"
    /\ c_pc[c] = "select"
    /\ c_scan'[c] # c_scan[c] \/ c_pc'[c] # "select"

(* C30: each round_robin selection advances the shared counter by exactly one, *)
(* whatever the health of the endpoints: it is over with its first step on the *)
(* counter; and the starting position, counter mod n, of the next selection is *)
(* one further modulo n.                                                       *)
C30_CounterStep ==
    [][\A c \in Callers :
          RoundRobinStep(c) =>
              /\ c_scan[c] = 0
              /\ c_pc'[c] = "request"
              /\ currentIndex' = (currentIndex + 1) % CounterMod
              /\ RoundRobinIdx(currentIndex') = (RoundRobinIdx(currentIndex) + 1) % nEndpoints]_vars

(* caller c's POST comes back with status 200 and a body that decodes *)
RequestSucceeds(c) == c_pc[c] = "inflight" /\ c_pc'[c] = "done" /\ c_result'[c].kind = "ok"

(* C31: the request_ok edge of the endpoint health state machine. When a request *)
(* attempt to an endpoint succeeds, that endpoint is HEALTHY afterwards, also    *)
(* when it was UNHEALTHY and had been picked as the last resort.                 *)
C31_RequestOkEdge ==
    [][\A c \in Callers : RequestSucceeds(c) => healthy'[c_sel[c]]]_vars

(* strings.HasSuffix *)
HasSuffix(str, suffix) ==
    Len(str) >= Len(suffix) /\ SubSeq(str, Len(str) - Len(suffix) + 1, Len(str)) = suffix

(* C32: health URL derivation. For an endpoint URL that ends in /api/v1/resolve  *)
(* the probe's GET goes to the URL with that suffix replaced by /health; for any *)
(* other endpoint URL, shorter than the suffix or not, it goes to the URL as     *)
(* configured, and the probe task runs to its end without a crash.               *)
C32_HealthURL ==
    u_pc # "idle" =>
        IF HasSuffix(u_url, ResolveSuffix)
        THEN u_pc # "crashed" /\ u_target = TrimSuffix(u_url, ResolveSuffix) \o "/health"
        ELSE u_pc # "crashed" /\ u_target = u_url

(* C33: the backward-compatibility path. A server with a cipher that receives a   *)
(* plain body {domain, type} with a non-empty domain decodes it directly: it      *)
(* passes the resolver the same (domain, type) and writes the same response as    *)
(* the server without cipher does for that body, and does not answer 400.         *)
C33_PlainBodyFallback ==
    (s_compat # NotServed /\ s_plain # NotServed /\ s_req.domain # "") =>
        /\ s_compat.passed = s_plain.passed
        /\ s_compat.http = s_plain.http
        /\ s_compat.http.status # 400

(* C34: the address family check of the local record builder. It makes no resource *)
(* record of a type A record whose value does not parse as an IP or parses as an   *)
(* IPv6 address, nor of a type AAAA record whose value does not parse or parses as *)
(* an IPv4 address; and every A record it makes carries a 4-byte address.          *)
C34_AddressFamily ==
    m_pc = "local" =>
        /\ (m_rec.Type = "A" /\ m_rec.Value \notin IPv4s) => ~m_rr.ok
        /\ (m_rec.Type = "AAAA" /\ m_rec.Value \notin IPv6s) => ~m_rr.ok
        /\ (m_rr.ok /\ m_rr.Rrtype = "A") => m_rr.Rdata \in IPv4s

(* C35: upstream cancellation. Once the context passed to Resolver.Resolve is done, *)
(* Resolve queries no upstream any more, neither the remaining ones of the current *)
(* attempt nor any in a later attempt, and what it returns to its caller is the    *)
(* cancellation.                                                                   *)
C35_UpstreamCancellation ==
    /\ [][q_ctx = "done" => ~Queried]_vars
    /\ []((q_pc = "returned" /\ q_ctx = "done") =>
             (~q_res.ok /\ "context canceled" \in {q_res.err, q_res.wraps}))

(* C36: one response per query. For an inbound message with an empty question    *)
(* section handleRequest writes nothing; for a message with at least one question *)
(* it writes exactly one response on every path (cache hit, resolved answer,      *)
(* NXDOMAIN, SERVFAIL), and that response is built for the first question alone:  *)
(* it bears the message's Id and one question, with the first question's key.     *)
C36_OneResponse ==
    /\ Len(w_out) <= 1
    /\ w_pc = "done" =>
          IF Len(w_req.Question) = 0
          THEN w_out = << >>
          ELSE /\ Len(w_out) = 1
               /\ w_out[1].Id = w_req.Id
               /\ Len(w_out[1].Question) = 1
               /\ Key(w_out[1].Question[1]) = Key(w_req.Question[1])
               /\ w_out[1].Rcode \in {"NOERROR", "NXDOMAIN", "SERVFAIL"}

(* a message with two questions has been answered with the one SERVFAIL *)
C36_Witness ==
    /\ w_pc = "done"
    /\ Len(w_req.Question) = 2
    /\ w_req.Question[1] # w_req.Question[2]
    /\ Len(w_out) = 1
    /\ w_out[1].Rcode = "SERVFAIL"
    /\ w_out[1].Question = <<w_req.Question[1]>>

(* a step of a local Get: its lookup, its expiry check or its delete *)
GetStep == tier = "local" /\ g_pc \in {"idle", "found", "expired"} /\ g_pc' # g_pc

(* C37: a local Get never removes an unexpired entry. Whatever another goroutine *)
(* stored between Get's lookup and Get's delete, every entry that has not        *)
(* expired when a step of Get runs is in the cache, unchanged, after the step:   *)
(* a fresh entry that a concurrent Set(key) put in the place of the expired one  *)
(* Get saw is still there when Get returns.                                      *)
C37_GetKeepsFresh ==
    [][GetStep =>
          \A k \in DOMAIN items :
              ~Expired(items[k].ExpiresAt, now) => (k \in DOMAIN items' /\ items'[k] = items[k])]_vars

(* the step is a Set that stores under key k, in the local or in the remote cache *)
StoresUnder(k) ==
    \/ \E m \in SetMsgs : m # NilMsg /\ m.Question # 0 /\ Set(k, m)
    \/ \E r \in RemoteResults : RSet(k, r)

(* C38: overwriting a key needs no eviction. A Set on a key that is present, in a *)
(* cache that holds exactly max_items entries, replaces the entry of that key and *)
(* leaves every other entry in place: the cache holds the same keys afterwards,   *)
(* in the local cache and in the remote cache.                                    *)
C38_OverwriteInPlace ==
    [][\A k \in Keys :
          /\ (StoresUnder(k) /\ k \in DOMAIN items /\ CacheLen(items) = maxItems) =>
                /\ DOMAIN items' = DOMAIN items
                /\ \A x \in (DOMAIN items) \ {k} : items'[x] = items[x]
          /\ (StoresUnder(k) /\ k \in DOMAIN ritems /\ CacheLen(ritems) = maxItems) =>
                /\ DOMAIN ritems' = DOMAIN ritems
                /\ \A x \in (DOMAIN ritems) \ {k} : ritems'[x] = ritems[x]]_vars

(* caller c's first POST was in flight when its context's deadline passed. The   *)
(* listener's context (resolveViaAPI: context.WithTimeout(..., s.cfg.API.Timeout)) *)
(* and the http.Client of NewClient (Timeout: cfg.Timeout) run on the same       *)
(* api.timeout, the context's clock started first: an endpoint that does not     *)
(* answer within api.timeout ends the attempt with the context done.             *)
FirstAttemptTimedOut(c) == Len(c_exch[c]) >= 1 /\ c_exch[c][1] = Aborted

(* C39: a timed-out attempt is retried. When the first POST of a call made for *)
(* the listener fails because the endpoint did not answer within api.timeout,  *)
(* and max_retries > 1, Resolve does not return after that single attempt: it  *)
(* puts a further POST on the wire, to the endpoint selected next.             *)
C39_TimeoutRetried ==
    \A c \in Callers :
        (c_pc[c] = "done" /\ maxRetries > 1 /\ FirstAttemptTimedOut(c)) =>
            /\ Len(c_exch[c]) >= 2
            /\ c_exch[c][2] # Unsent

(* C40: caller cancellation does not poison endpoint health. A step of Resolve    *)
(* that ends an attempt turns the selected endpoint's flag to false only when the *)
(* endpoint itself failed (transport error or non-200 status); an attempt that    *)
(* ended only because the caller's context was cancelled or ran out leaves that   *)
(* endpoint's flag as it was.                                                     *)
C40_CancelKeepsHealth ==
    [][\A c \in Callers :
          Len(c_log'[c]) = Len(c_log[c]) + 1 =>
              LET a == c_log'[c][Len(c_log'[c])]
              IN  /\ a.out = "ctx" => healthy'[a.ep] = healthy[a.ep]
                  /\ (healthy[a.ep] /\ ~healthy'[a.ep]) => a.out \in {"transport", "status"}]_vars

====
